---- MODULE Spec2Model ----
(***************************************************************************)
(* The lint / codemod command of ELP (crates/elp/src/bin/lint_cli.rs and   *)
(* main.rs) as a state machine: load the project, compute and filter the   *)
(* diagnostics, report them, apply the fixes they carry until nothing      *)
(* changes, write the touched modules, and turn the result into the exit   *)
(* code of the process.                                                    *)
(*                                                                         *)
(* A file's text is a sequence of top-level forms, one per line.  A form   *)
(* is named by its kind; the kind decides which diagnostic the engine      *)
(* reports on it and which fixes that diagnostic carries.  Lines and       *)
(* FileIds are numbered as the program numbers them (lines from 0).        *)
(***************************************************************************)
EXTENDS Integers, Sequences, FiniteSets, TLC

(* ----------------------------- bounds ---------------------------------- *)

\* At most this many forms of the initial source tree carry a diagnostic.
MaxDirty == 2

\* FileIds of the own modules of the project, and the line numbers of a
\* file (one form per line).
Files == {1, 2}
LineNos == {0, 1}
LinesPerFile == Cardinality(LineNos)

(* -------------------------- program constants --------------------------- *)

LINT_APPLICATION_RECURSION_LIMIT == 10

ExitOk == 0
ExitErr == 101

(* ------------------------------ options --------------------------------- *)

NoneNum == [some |-> FALSE, val |-> 0]
SomeNum(v) == [some |-> TRUE, val |-> v]
NoneStr == [some |-> FALSE, val |-> <<>>]
SomeStr(s) == [some |-> TRUE, val |-> s]

(* --------------------------- diagnostic codes --------------------------- *)

\* A string is the sequence of its characters.
UpperChars ==
    {"A", "B", "C", "D", "E", "F", "G", "H", "I", "J", "K", "L", "M",
     "N", "O", "P", "Q", "R", "S", "T", "U", "V", "W", "X", "Y", "Z"}
DigitChars == {"0", "1", "2", "3", "4", "5", "6", "7", "8", "9"}
WhitespaceChars == {" ", "\t", "\n"}

\* enum DiagnosticCode, in the order of its declaration; Missing,
\* ErlangService and AdHoc carry a string.
Variants ==
    <<"DefaultCodeForEnumIter", "HeadMismatch", "MissingModule",
      "ModuleMismatch", "UnusedInclude", "BoundVarInPattern",
      "UnusedMacro", "UnusedRecordField", "MutableVarBug",
      "SyntaxError", "Missing", "StatementHasNoEffect",
      "TrivialMatch", "UnusedFunctionArg", "RedundantAssignment",
      "UnreachableTest", "ApplicationGetEnv", "MissingCompileWarnMissingSpec",
      "MisspelledAttribute", "CrossNodeEval", "ErlangService",
      "AdHoc">>

OpenVariants == {"Missing", "ErlangService", "AdHoc"}

Code(variant) == [variant |-> variant, s |-> <<>>]
Missing(s) == [variant |-> "Missing", s |-> s]
ErlangService(s) == [variant |-> "ErlangService", s |-> s]
AdHoc(s) == [variant |-> "AdHoc", s |-> s]

AdHocPrefix == <<"a", "d", "-", "h", "o", "c", ":", " ">>

as_code(c) ==
    CASE c.variant = "DefaultCodeForEnumIter" ->
             <<"D", "E", "F", "A", "U", "L", "T", "-", "U", "N", "U", "S", "E", "D", "-", "C", "O", "N", "S", "T", "R", "U", "C", "T", "O", "R">>
      [] c.variant = "HeadMismatch" ->
             <<"P", "1", "7", "0", "0">>
      [] c.variant = "MissingModule" ->
             <<"L", "1", "2", "0", "1">>
      [] c.variant = "ModuleMismatch" ->
             <<"W", "0", "0", "0", "1">>
      [] c.variant = "UnusedInclude" ->
             <<"L", "1", "5", "0", "0">>
      [] c.variant = "BoundVarInPattern" ->
             <<"W", "0", "0", "0", "0">>
      [] c.variant = "UnusedMacro" ->
             <<"W", "0", "0", "0", "2">>
      [] c.variant = "UnusedRecordField" ->
             <<"W", "0", "0", "0", "3">>
      [] c.variant = "MutableVarBug" ->
             <<"W", "0", "0", "0", "5">>
      [] c.variant = "SyntaxError" ->
             <<"P", "1", "7", "1", "1">>
      [] c.variant = "Missing" ->
             <<"W", "0", "0", "0", "4">>
      [] c.variant = "StatementHasNoEffect" ->
             <<"W", "0", "0", "0", "6">>
      [] c.variant = "TrivialMatch" ->
             <<"W", "0", "0", "0", "7">>
      [] c.variant = "UnusedFunctionArg" ->
             <<"W", "0", "0", "1", "0">>
      [] c.variant = "RedundantAssignment" ->
             <<"W", "0", "0", "0", "9">>
      [] c.variant = "UnreachableTest" ->
             <<"W", "0", "0", "0", "8">>
      [] c.variant = "ApplicationGetEnv" ->
             <<"W", "0", "0", "1", "1">>
      [] c.variant = "MissingCompileWarnMissingSpec" ->
             <<"W", "0", "0", "1", "2">>
      [] c.variant = "MisspelledAttribute" ->
             <<"W", "0", "0", "1", "3">>
      [] c.variant = "CrossNodeEval" ->
             <<"W", "0", "0", "1", "4">>
      [] c.variant = "ErlangService" -> c.s
      [] c.variant = "AdHoc" -> AdHocPrefix \o c.s

as_label(c) ==
    CASE c.variant = "DefaultCodeForEnumIter" ->
             <<"D", "E", "F", "A", "U", "L", "T", "-", "U", "N", "U", "S", "E", "D", "-", "C", "O", "N", "S", "T", "R", "U", "C", "T", "O", "R">>
      [] c.variant = "HeadMismatch" ->
             <<"h", "e", "a", "d", "_", "m", "i", "s", "m", "a", "t", "c", "h">>
      [] c.variant = "MissingModule" ->
             <<"m", "i", "s", "s", "i", "n", "g", "_", "m", "o", "d", "u", "l", "e">>
      [] c.variant = "ModuleMismatch" ->
             <<"m", "o", "d", "u", "l", "e", "_", "m", "i", "s", "m", "a", "t", "c", "h">>
      [] c.variant = "UnusedInclude" ->
             <<"u", "n", "u", "s", "e", "d", "_", "i", "n", "c", "l", "u", "d", "e">>
      [] c.variant = "BoundVarInPattern" ->
             <<"b", "o", "u", "n", "d", "_", "v", "a", "r", "_", "i", "n", "_", "p", "a", "t", "t", "e", "r", "n">>
      [] c.variant = "UnusedMacro" ->
             <<"u", "n", "u", "s", "e", "d", "_", "m", "a", "c", "r", "o">>
      [] c.variant = "UnusedRecordField" ->
             <<"u", "n", "u", "s", "e", "d", "_", "r", "e", "c", "o", "r", "d", "_", "f", "i", "e", "l", "d">>
      [] c.variant = "MutableVarBug" ->
             <<"m", "u", "t", "a", "b", "l", "e", "_", "v", "a", "r", "i", "a", "b", "l", "e", "_", "b", "u", "g">>
      [] c.variant = "SyntaxError" ->
             <<"s", "y", "n", "t", "a", "x", "_", "e", "r", "r", "o", "r">>
      [] c.variant = "Missing" ->
             <<"m", "i", "s", "s", "i", "n", "g", "_", "c", "o", "m", "m", "a", "_", "o", "r", "_", "p", "a", "r", "e", "n", "t", "h", "e", "s", "i", "s">>
      [] c.variant = "StatementHasNoEffect" ->
             <<"s", "t", "a", "t", "e", "m", "e", "n", "t", "_", "h", "a", "s", "_", "n", "o", "_", "e", "f", "f", "e", "c", "t">>
      [] c.variant = "TrivialMatch" ->
             <<"t", "r", "i", "v", "i", "a", "l", "_", "m", "a", "t", "c", "h">>
      [] c.variant = "UnusedFunctionArg" ->
             <<"u", "n", "u", "s", "e", "d", "_", "f", "u", "n", "c", "t", "i", "o", "n", "_", "a", "r", "g">>
      [] c.variant = "RedundantAssignment" ->
             <<"r", "e", "d", "u", "n", "d", "a", "n", "t", "_", "a", "s", "s", "i", "g", "n", "m", "e", "n", "t">>
      [] c.variant = "UnreachableTest" ->
             <<"u", "n", "r", "e", "a", "c", "h", "a", "b", "l", "e", "_", "t", "e", "s", "t">>
      [] c.variant = "ApplicationGetEnv" ->
             <<"a", "p", "p", "l", "i", "c", "a", "t", "i", "o", "n", "_", "g", "e", "t", "_", "e", "n", "v">>
      [] c.variant = "MissingCompileWarnMissingSpec" ->
             <<"c", "o", "m", "p", "i", "l", "e", "-", "w", "a", "r", "n", "-", "m", "i", "s", "s", "i", "n", "g", "-", "s", "p", "e", "c">>
      [] c.variant = "MisspelledAttribute" ->
             <<"m", "i", "s", "s", "p", "e", "l", "l", "e", "d", "_", "a", "t", "t", "r", "i", "b", "u", "t", "e">>
      [] c.variant = "CrossNodeEval" ->
             <<"c", "r", "o", "s", "s", "_", "n", "o", "d", "e", "_", "e", "v", "a", "l">>
      [] c.variant = "ErlangService" -> c.s
      [] c.variant = "AdHoc" -> AdHocPrefix \o c.s

\* impl Display for DiagnosticCode
to_string(c) == as_code(c)

(* ------------------------- parsing a code string ------------------------ *)

None == [some |-> FALSE, val |-> <<>>]
Some(v) == [some |-> TRUE, val |-> v]

\* DIAGNOSTIC_CODE_LOOKUPS.get(s): the table is filled from
\* DiagnosticCode::iter(), which yields every variant in declaration order,
\* a variant with data at the default of its data (the empty string); each
\* variant inserts its as_code and its as_label, a later insert of the same
\* key replacing the earlier one.
DIAGNOSTIC_CODE_LOOKUPS(s) ==
    LET hits == {i \in 1..Len(Variants) :
                    \/ as_code(Code(Variants[i])) = s
                    \/ as_label(Code(Variants[i])) = s}
    IN IF hits = {} THEN None
       ELSE Some(Code(Variants[CHOOSE i \in hits : \A j \in hits : j <= i]))

\* is_adhoc: ^ad-hoc: ([^\s]+)$
is_adhoc(s) ==
    IF /\ Len(s) > Len(AdHocPrefix)
       /\ SubSeq(s, 1, Len(AdHocPrefix)) = AdHocPrefix
       /\ \A i \in (Len(AdHocPrefix) + 1)..Len(s) : s[i] \notin WhitespaceChars
    THEN Some(SubSeq(s, Len(AdHocPrefix) + 1, Len(s)))
    ELSE None

\* is_erlang_service: ^([A-Z]+[0-9]{4})$
is_erlang_service(s) ==
    IF /\ Len(s) >= 5
       /\ \A i \in 1..(Len(s) - 4) : s[i] \in UpperChars
       /\ \A i \in (Len(s) - 3)..Len(s) : s[i] \in DigitChars
    THEN Some(s)
    ELSE None

maybe_from_string(s) ==
    IF DIAGNOSTIC_CODE_LOOKUPS(s).some THEN DIAGNOSTIC_CODE_LOOKUPS(s)
    ELSE IF is_adhoc(s).some THEN Some(AdHoc(is_adhoc(s).val))
    ELSE IF is_erlang_service(s).some
    THEN Some(ErlangService(is_erlang_service(s).val))
    ELSE None

\* impl FromStr for DiagnosticCode: Ok(code) or Err("Unknown DiagnosticCode").
from_str(s) ==
    IF maybe_from_string(s).some
    THEN [ok |-> TRUE, val |-> maybe_from_string(s).val]
    ELSE [ok |-> FALSE, val |-> <<>>]

(* --------------------------- the source text ---------------------------- *)

\* Form kinds.  "ok" and "ign" carry no diagnostic ("ign" is a form below an
\* "% elp:ignore" comment); "pong" and "ign" only arise from fixes.
CleanKinds == {"ok", "ign"}
DirtyKinds == {"tm", "ra", "ping", "hm", "urf", "unres"}
Kinds == CleanKinds \cup DirtyKinds \cup {"pong"}

\* A module name stands for its place in the alphabetical order of names;
\* the names are ordered against the FileIds.
ModuleName(file_id) == Cardinality(Files) + 1 - file_id

\* A fix with its source change resolved (the form kind the edit leaves
\* behind), and one without a source change.
fix(id, to) == [id |-> id, resolved |-> TRUE, to |-> to]
unresolved_fix(id) == [id |-> id, resolved |-> FALSE, to |-> "ok"]

NoFixes == [some |-> FALSE, list |-> <<>>]
with_fixes(fs) == [some |-> TRUE, list |-> fs]

\* The diagnostic a form of the given kind gets: code, severity and fixes.
KindCode(kind) ==
    CASE kind = "tm" -> Code("TrivialMatch")
      [] kind = "ra" -> Code("RedundantAssignment")
      [] kind \in {"ping", "pong"} -> Code("UnusedFunctionArg")
      [] kind = "hm" -> Code("HeadMismatch")
      [] kind = "urf" -> Code("UnusedRecordField")
      [] kind = "unres" -> Code("MutableVarBug")
      [] kind = "ms" -> Missing(<<"m", "i", "s", "s", "i", "n", "g", "_", "c", "o", "m", "m", "a">>)
      [] kind = "call" -> AdHoc(<<"f", "o", "o">>)
      [] OTHER -> Code("DefaultCodeForEnumIter")

KindSeverity(kind) ==
    CASE kind = "hm" -> "Error"
      [] kind \in {"ra", "ping", "pong", "call"} -> "WeakWarning"
      [] OTHER -> "Warning"

KindFixes(kind) ==
    CASE kind = "tm" -> with_fixes(<<fix("remove_match", "ra")>>)
      [] kind = "ra" -> with_fixes(<<fix("remove_redundant_assignment", "ok")>>)
      [] kind = "ping" -> with_fixes(<<fix("rename", "pong")>>)
      [] kind = "pong" -> with_fixes(<<fix("rename", "ping")>>)
      [] kind = "hm" -> with_fixes(<<fix("fix_head_mismatch", "urf"),
                                     fix("ignore_problem", "ign")>>)
      [] kind = "unres" -> with_fixes(<<unresolved_fix("lazy")>>)
      [] OTHER -> NoFixes

\* Only the ad-hoc call-site diagnostic is marked experimental.
KindExperimental(kind) == kind = "call"

Diagnostic(kind, line) ==
    [code |-> KindCode(kind), severity |-> KindSeverity(kind),
     line |-> line, fixes |-> KindFixes(kind),
     experimental |-> KindExperimental(kind)]

\* Comment lines, by the text they hold.
CommentText(kind) ==
    CASE kind = "%W0003" -> <<"%", " ", "e", "l", "p", ":", "i", "g", "n", "o", "r", "e", " ", "W", "0", "0", "0", "3", " ", "(", "u", "n", "u", "s", "e", "d", "_", "r", "e", "c", "o", "r", "d", "_", "f", "i", "e", "l", "d", ")">>
      [] kind = "%urf" -> <<"%", "%", " ", "e", "l", "p", ":", "i", "g", "n", "o", "r", "e", " ", "u", "n", "u", "s", "e", "d", "_", "r", "e", "c", "o", "r", "d", "_", "f", "i", "e", "l", "d">>
      [] kind = "%W0004" -> <<"%", " ", "e", "l", "p", ":", "i", "g", "n", "o", "r", "e", " ", "W", "0", "0", "0", "4", " ", "(", "m", "i", "s", "s", "i", "n", "g", "_", "c", "o", "m", "m", "a", "_", "o", "r", "_", "p", "a", "r", "e", "n", "t", "h", "e", "s", "i", "s", ")">>
      [] kind = "%adhoc" -> <<"%", " ", "e", "l", "p", ":", "i", "g", "n", "o", "r", "e", " ", "a", "d", "-", "h", "o", "c", ":", " ", "f", "o", "o">>
      [] kind = "%note" -> <<"%", " ", "W", "0", "0", "0", "3", " ", "i", "s", " ", "f", "i", "n", "e", " ", "h", "e", "r", "e">>
      [] OTHER -> <<>>

CommentKinds == {"%W0003", "%urf", "%W0004", "%adhoc", "%note"}

(* --------------------------- sequence helpers --------------------------- *)

RECURSIVE Concat(_)
Concat(seqs) ==
    IF seqs = <<>> THEN <<>> ELSE Head(seqs) \o Concat(Tail(seqs))

Map(s, F(_)) == [i \in 1..Len(s) |-> F(s[i])]

Range(s) == {s[i] : i \in 1..Len(s)}

(* ------------------------ the diagnostics engine ------------------------ *)

\* str::find: the index of the first occurrence of the pattern, 0 if none.
find(s, pattern) ==
    LET at == {i \in 1..(Len(s) - Len(pattern) + 1) :
                  SubSeq(s, i, i + Len(pattern) - 1) = pattern}
    IN IF at = {} THEN 0 ELSE CHOOSE i \in at : \A j \in at : i <= j

\* str::split_whitespace: the maximal runs of non-whitespace characters.
RECURSIVE split_whitespace(_)
split_whitespace(s) ==
    IF s = <<>> THEN <<>>
    ELSE IF Head(s) \in WhitespaceChars THEN split_whitespace(Tail(s))
    ELSE LET stops == {i \in 1..Len(s) : s[i] \in WhitespaceChars}
             n == IF stops = {} THEN Len(s) + 1
                  ELSE CHOOSE i \in stops : \A j \in stops : i <= j
         IN <<SubSeq(s, 1, n - 1)>> \o split_whitespace(SubSeq(s, n, Len(s)))

comment_contains_ignore_code(comment, code) ==
    LET start == find(comment, <<"%", " ", "e", "l", "p", ":", "i", "g", "n", "o", "r", "e">>)
    IN /\ start # 0
       /\ LET words == split_whitespace(SubSeq(comment, start, Len(comment)))
          IN \E i \in 1..Len(words) :
                 LET parsed == from_str(words[i])
                 IN parsed.ok /\ code = parsed.val

\* The comment on the line above the given line, if that line is a comment.
prev_line_comment_text(text, line) ==
    IF line = 0 \/ text[line] \notin CommentKinds THEN None
    ELSE Some(CommentText(text[line]))

should_be_ignored(d, text) ==
    LET comment == prev_line_comment_text(text, d.line)
    IN comment.some /\ comment_contains_ignore_code(comment.val, d.code)

\* with_ignore_fix: the fixes the diagnostic has, then the ignore fix.
with_ignore_fix(d) ==
    LET ignore_fix ==
            [id |-> "ignore_problem", resolved |-> TRUE, to |-> "ign",
             insert |-> <<"%", " ", "e", "l", "p", ":", "i", "g", "n", "o", "r", "e", " ">> \o as_code(d.code) \o <<" ", "(">>
                        \o as_label(d.code) \o <<")", "\n">>]
    IN [d EXCEPT !.fixes = with_fixes(d.fixes.list \o <<ignore_fix>>)]

\* The passes run in this order, each appending what it finds (in text
\* order) to the result: the missing separators, the ad-hoc passes of the
\* configuration, the semantic passes and the syntax passes.
PassOrder ==
    <<Missing(<<"m", "i", "s", "s", "i", "n", "g", "_", "c", "o", "m", "m", "a">>), AdHoc(<<"f", "o", "o">>),
      Code("UnusedFunctionArg"), Code("RedundantAssignment"),
      Code("TrivialMatch"), Code("UnusedRecordField"), Code("MutableVarBug"),
      Code("HeadMismatch")>>

PassDiagnostics(text, code) ==
    LET lines == SelectSeq([i \in 1..Len(text) |-> i],
                           LAMBDA i : KindCode(text[i]) = code)
    IN [j \in 1..Len(lines) |-> Diagnostic(text[lines[j]], lines[j] - 1)]

\* Whether a pass runs under the configuration.
PassRuns(config, code) ==
    CASE code.variant = "AdHoc" -> config.adhoc_semantic_diagnostics
      [] code.variant \in {"UnusedFunctionArg", "RedundantAssignment",
                           "TrivialMatch"} -> ~config.disable_experimental
      [] OTHER -> TRUE

\* A variant of the filter that keeps experimental diagnostics.
retain_experimental(config, d, text) ==
    /\ d.code \notin config.disabled
    /\ ~should_be_ignored(d, text)

retain(config, d, text) ==
    /\ d.code \notin config.disabled
    /\ ~(config.disable_experimental /\ d.experimental)
    /\ ~should_be_ignored(d, text)

\* What the passes produce, before the filter.
produced(config, text) ==
    Concat([p \in 1..Len(PassOrder) |->
               IF PassRuns(config, PassOrder[p])
               THEN PassDiagnostics(text, PassOrder[p]) ELSE <<>>])

diagnostics_with(config, text) ==
    SelectSeq(produced(config, text), LAMBDA d : retain(config, d, text))

DiagnosticsConfigDefault ==
    [disable_experimental |-> FALSE, disabled |-> {},
     adhoc_semantic_diagnostics |-> FALSE]

\* The diagnostics of a file under the configuration of the lint command.
diagnostics(text) == diagnostics_with(DiagnosticsConfigDefault, text)

\* do_parse_one: an entry only for a file with diagnostics.
do_parse_one(text, file_id, name, changes) ==
    LET ds == diagnostics(text)
    IN IF ds # <<>>
       THEN <<[name |-> name, file_id |-> file_id, ds |-> ds,
               changes |-> changes]>>
       ELSE <<>>

\* do_parse_all: one entry per own module with diagnostics.
RECURSIVE ParseFiles(_, _)
ParseFiles(db, todo) ==
    IF todo = {} THEN <<>>
    ELSE LET f == CHOOSE x \in todo : \A y \in todo : x <= y
         IN do_parse_one(db[f], f, ModuleName(f), <<>>)
            \o ParseFiles(db, todo \ {f})

do_parse_all(db) == ParseFiles(db, Files)

(* ---------------------------- the filter -------------------------------- *)

\* A variant that takes the upper end of a range as exclusive.
check_changes_exclusive(changes, line) ==
    \/ changes = <<>>
    \/ \E i \in 1..Len(changes) : line >= changes[i][1] /\ line < changes[i][2]

check_changes(changes, line) ==
    \/ changes = <<>>
    \/ \E i \in 1..Len(changes) : line >= changes[i][1] /\ line <= changes[i][2]

check_from(line_from, line) == line_from.some => line >= line_from.val
check_to(line_to, line) == line_to.some => line <= line_to.val

KeepDiagnostic(d, diagnostic_code, line_from, line_to, changes) ==
    /\ (~diagnostic_code.some \/ to_string(d.code) = diagnostic_code.val)
    /\ check_from(line_from, d.line)
    /\ check_to(line_to, d.line)
    /\ check_changes(changes, d.line)

FilterEntry(e, module, diagnostic_code, line_from, line_to) ==
    IF ~module.some \/ e.name = module.val
    THEN LET ds2 == SelectSeq(e.ds, LAMBDA d :
                        KeepDiagnostic(d, diagnostic_code, line_from, line_to,
                                       e.changes))
         IN IF ds2 # <<>>
            THEN <<[name |-> e.name, file_id |-> e.file_id, ds |-> ds2]>>
            ELSE <<>>
    ELSE <<>>

filter_diagnostics(module, diagnostic_code, line_from, line_to, diags) ==
    Concat([i \in 1..Len(diags) |->
              FilterEntry(diags[i], module, diagnostic_code, line_from, line_to)])

\* diags.sort_by(|(a, _, _), (b, _, _)| a.cmp(b)): a stable sort on the name.
RECURSIVE InsertByName(_, _)
InsertByName(e, sorted) ==
    IF sorted = <<>> THEN <<e>>
    ELSE IF e.name < Head(sorted).name THEN <<e>> \o sorted
    ELSE <<Head(sorted)>> \o InsertByName(e, Tail(sorted))

RECURSIVE SortByName(_)
SortByName(s) ==
    IF s = <<>> THEN <<>>
    ELSE InsertByName(s[Len(s)], SortByName(SubSeq(s, 1, Len(s) - 1)))

(* --------------------------- applying fixes ----------------------------- *)

Ok(v) == [ok |-> TRUE, val |-> v]
Err(msg) == [ok |-> FALSE, val |-> <<>>]

\* edit.apply: the edit of a fix rewrites the form the diagnostic is on.
ApplyEdit(text, line, to) == [text EXCEPT ![line + 1] = to]

\* diff_from_textedit and form_range_from_diff: each hunk of the diff widened
\* to the lines of its enclosing form.
ChangeRanges(original, actual, line) ==
    IF original = actual THEN <<>> ELSE <<<<line, line>>>>

\* A variant that produces a result for a fix without a source change too.
apply_one_fix_any(fx, fix_no, name, d, file_id, db) ==
    LET original == db[file_id]
        actual == ApplyEdit(original, d.line, fx.to)
    IN <<[file_id |-> file_id, name |-> name, source |-> actual,
          changes |-> ChangeRanges(original, actual, d.line),
          fix_no |-> fix_no]>>

\* apply_one_fix: nothing for a fix without a source change, otherwise the
\* file text of the database with the edit applied.  fix_no (the place of the
\* fix in the diagnostic's list) is kept for the record only.
apply_one_fix(fx, fix_no, name, d, file_id, db) ==
    IF ~fx.resolved THEN <<>>
    ELSE LET original == db[file_id]
             actual == ApplyEdit(original, d.line, fx.to)
         IN <<[file_id |-> file_id, name |-> name, source |-> actual,
               changes |-> ChangeRanges(original, actual, d.line),
               fix_no |-> fix_no]>>

\* apply_fixes: every fix of the diagnostic, each applied to the same text;
\* an error for a diagnostic without fixes.
apply_fixes(name, d, file_id, db) ==
    IF d.fixes.some
    THEN Ok(Concat([i \in 1..Len(d.fixes.list) |->
                 apply_one_fix(d.fixes.list[i], i, name, d, file_id, db)]))
    ELSE Err("No fixes in")

\* What the flat_map over the per-file Results keeps of one Result: the
\* vector of an Ok, nothing of an Err.
ResultIntoIter(r) == IF r.ok THEN r.val ELSE <<>>

\* apply_diagnostics_fixes: the first diagnostic of every file.
apply_diagnostics_fixes(diags, db) ==
    Concat([i \in 1..Len(diags) |->
        ResultIntoIter(
            IF diags[i].ds = <<>> THEN Ok(<<>>)
            ELSE apply_fixes(diags[i].name, Head(diags[i].ds),
                             diags[i].file_id, db))])

\* Whether apply_fixes bails out for the first diagnostic of some file.
SomeNoFixes(diags) ==
    \E i \in 1..Len(diags) :
        diags[i].ds # <<>> /\ ~Head(diags[i].ds).fixes.some

HasError(diags) ==
    \E i \in 1..Len(diags) : \E j \in 1..Len(diags[i].ds) :
        diags[i].ds[j].severity = "Error"

\* The two reporting loops of do_codemod: the severity is looked at only
\* for a diagnostic that is printed.
ErrInDiagJson(diags, print_diags) == print_diags /\ HasError(diags)
ErrInDiagNormal(diags, print_diags) == print_diags /\ HasError(diags)

\* handle_res
handle_res(result) == IF result = "Err" THEN ExitErr ELSE ExitOk

(* ------------------------------- state ---------------------------------- *)

VARIABLES
    disk,            \* the source tree: FileId -> text
    loaded,          \* the source tree as load_project_at read it
    outdir,          \* the --to directory: FileId -> text, <<>> when absent
    vfs,             \* Vfs: FileId -> contents
    db,              \* AnalysisHost: FileId -> file text
    args,            \* the selectors of the command line
    flags,           \* the other switches, fixed when first read
    pc,              \* where the command is
    res,             \* do_codemod: the parse result
    diags,           \* do_codemod's diags, then Lints.diags
    err_in_diag,     \* do_codemod: err_in_diag
    recursion_limit, \* apply_relevant_fixes
    changes,         \* apply_relevant_fixes: the changes of this iteration
    todo,            \* the changes not yet written back
    new_diags,       \* the entries collected by the write-back closure
    changed_files,   \* Lints.changed_files
    fix_result,      \* what apply_relevant_fixes returned
    cmd_result,      \* what do_codemod returned
    exit_code,       \* the exit code of the process
    stderr,          \* whether a message went to the error channel
    writes,          \* FileId -> files written for it in this run
    calls,           \* calls of apply_diagnostics_fixes in this run
    failed,          \* the failures fix application met in this run
    run,             \* 1 for the first run of the command, 2 for the second
    tree1,           \* the tree the first run left
    input,           \* the argument of a function looked at on its own
    output,          \* and what it returned
    host,            \* the database of an AnalysisHost shared with readers
    snapshots        \* the Analysis each reader holds and what it got from it

vars == <<disk, loaded, outdir, vfs, db, args, flags, pc, res, diags, err_in_diag,
          recursion_limit, changes, todo, new_diags, changed_files,
          fix_result, cmd_result, exit_code, stderr, writes, calls, failed,
          run, tree1, input, output, host, snapshots>>

\* The variables the codemod command does not touch.
ext == <<input, output, host, snapshots>>

\* The threads that hold an Analysis.
Readers == {1, 2}

\* A host at revision 0 and readers without an Analysis.
NoSnapshot ==
    [state |-> "none", rev |-> 0, op |-> "none", read |-> "none",
     result |-> [ok |-> FALSE, val |-> "none"],
     outcome |-> [ok |-> FALSE, val |-> "none"]]

InitHost ==
    /\ host = [rev |-> 0, text |-> "ok", pending |-> FALSE, hist |-> <<"ok">>]
    /\ snapshots = [r \in Readers |-> NoSnapshot]


InitKinds == {"ok"} \cup DirtyKinds

Texts == [1..LinesPerFile -> InitKinds]

DirtyLines(tree) ==
    Cardinality({<<f, i>> \in Files \X (1..LinesPerFile) :
                    tree[f][i] \in DirtyKinds})

\* What --diagnostic-filter is given: the short code of a code some pass
\* reports, or a label.
FilterCodes ==
    {as_code(KindCode(k)) : k \in DirtyKinds} \cup {as_label(Code("HeadMismatch"))}

ArgsSet ==
    [module : {NoneNum} \cup {SomeNum(ModuleName(f)) : f \in Files},
     diagnostic_filter : {NoneStr} \cup {SomeStr(c) : c \in FilterCodes},
     line_from : {NoneNum, SomeNum(1)},
     line_to : {NoneNum, SomeNum(0)}]

NoTree == [f \in Files |-> <<>>]
NoWrites == [f \in Files |-> 0]

Init ==
    /\ disk \in [Files -> Texts]
    /\ DirtyLines(disk) <= MaxDirty
    /\ loaded = disk
    /\ outdir = NoTree
    /\ vfs = disk
    /\ db = disk
    /\ args \in ArgsSet
    /\ flags = [print_diags |-> "unset", apply_fix |-> "unset",
                recursive |-> "unset", in_place |-> "unset", to |-> "unset"]
    /\ pc = "start"
    /\ res = <<>>
    /\ diags = <<>>
    /\ err_in_diag = FALSE
    /\ recursion_limit = LINT_APPLICATION_RECURSION_LIMIT
    /\ changes = <<>>
    /\ todo = <<>>
    /\ new_diags = <<>>
    /\ changed_files = {}
    /\ fix_result = "none"
    /\ cmd_result = "none"
    /\ exit_code = ExitOk
    /\ stderr = FALSE
    /\ writes = NoWrites
    /\ calls = 0
    /\ failed = {}
    /\ run = 1
    /\ tree1 = [disk |-> NoTree, outdir |-> NoTree, exit_code |-> ExitOk]
    /\ input = <<>>
    /\ output = <<>>
    /\ InitHost

\* A switch of the command line is fixed for the process; the model fixes
\* it when the program first reads it.
Read(name, domain, v) ==
    /\ v \in (IF flags[name] = "unset" THEN domain ELSE {flags[name]})

Bool == {"true", "false"}

(* ------------------------------ do_codemod ------------------------------ *)

FileOfModule(name) == CHOOSE f \in Files : ModuleName(f) = name

\* The parse result of do_codemod: the module named by --module, or all.
ParseSelected(module, database) ==
    IF module.some
    THEN do_parse_one(database[FileOfModule(module.val)],
                      FileOfModule(module.val), module.val, <<>>)
    ELSE do_parse_all(database)

\* do_codemod up to the filtered list: without --diagnostic-filter the
\* command bails out; otherwise one module or all of them are parsed and
\* the result is filtered by the selectors.
ParseAndFilter ==
    /\ pc = "start"
    /\ IF ~args.diagnostic_filter.some
       THEN /\ cmd_result' = "Err"
            /\ pc' = "handle_res"
            /\ UNCHANGED <<res, diags>>
       ELSE /\ res' = ParseSelected(args.module, db)
            /\ diags' = filter_diagnostics(args.module, args.diagnostic_filter,
                                           args.line_from, args.line_to, res')
            /\ pc' = "report"
            /\ UNCHANGED cmd_result
    /\ UNCHANGED <<disk, loaded, outdir, vfs, db, args, flags, err_in_diag,
                   recursion_limit, changes, todo, new_diags, changed_files,
                   fix_result, exit_code, stderr, writes, calls, failed, run,
                   tree1>>
    /\ UNCHANGED ext

\* Nothing selected: "No diagnostics reported", and the command is done.
\* Otherwise the list is sorted by module name and reported, in the format
\* asked for (which decides nothing but the shape of the output).
Report ==
    /\ pc = "report"
    /\ IF diags = <<>>
       THEN /\ cmd_result' = "Ok"
            /\ pc' = "handle_res"
            /\ UNCHANGED <<diags, err_in_diag, flags>>
       ELSE \E fmt \in {"normal", "json"}, pd \in Bool :
            /\ Read("print_diags", Bool, pd)
            /\ flags' = [flags EXCEPT !.print_diags = pd]
            /\ diags' = SortByName(diags)
            /\ err_in_diag' = IF fmt = "json"
                              THEN ErrInDiagJson(diags', pd = "true")
                              ELSE ErrInDiagNormal(diags', pd = "true")
            /\ pc' = "apply_fix"
            /\ UNCHANGED cmd_result
    /\ UNCHANGED <<disk, loaded, outdir, vfs, db, args, res, recursion_limit, changes,
                   todo, new_diags, changed_files, fix_result, exit_code,
                   stderr, writes, calls, failed, run, tree1>>
    /\ UNCHANGED ext

\* if args.apply_fix: Lints::new and the start of apply_relevant_fixes.
ApplyFix ==
    /\ pc = "apply_fix"
    /\ \E af \in Bool :
        /\ Read("apply_fix", Bool, af)
        /\ flags' = [flags EXCEPT !.apply_fix = af]
        /\ pc' = IF af = "true" THEN "loop" ELSE "finish"
    /\ changed_files' = {}
    /\ recursion_limit' = LINT_APPLICATION_RECURSION_LIMIT
    /\ UNCHANGED <<disk, loaded, outdir, vfs, db, args, res, diags, err_in_diag,
                   changes, todo, new_diags, fix_result, cmd_result, exit_code,
                   stderr, writes, calls, failed, run, tree1>>
    /\ UNCHANGED ext

(* -------------------------- apply_relevant_fixes ------------------------ *)

\* A variant that also breaks once the counter has been decremented.
LoopBreaksAfterOne(limit, cs) ==
    limit < LINT_APPLICATION_RECURSION_LIMIT \/ cs = <<>>

\* A variant of the break that does not look at the counter.
LoopBreaksOnNoChange(limit, cs) == cs = <<>>

\* The loop's break: the counter is used up or nothing changed.
LoopBreaks(limit, cs) == limit <= 0 \/ cs = <<>>

\* The test that makes the break an error.
LimitHit(limit) == limit < 0

\* The head of the loop: the fixes of this iteration are computed, then the
\* loop breaks, bails out or goes on to write them back.
ApplyDiagnosticsFixes ==
    /\ pc = "loop"
    /\ changes' = apply_diagnostics_fixes(diags, db)
    /\ calls' = calls + 1
    /\ failed' = failed
                 \cup (IF SomeNoFixes(diags) THEN {"no_fixes"} ELSE {})
                 \cup (IF recursion_limit <= 0 /\ changes' # <<>>
                       THEN {"limit"} ELSE {})
    /\ IF LoopBreaks(recursion_limit, changes')
       THEN /\ IF LimitHit(recursion_limit)
               THEN fix_result' = "Err" /\ pc' = "finish"
               ELSE fix_result' = fix_result /\ pc' = "write"
            /\ UNCHANGED <<recursion_limit, todo, new_diags>>
       ELSE /\ recursion_limit' = recursion_limit - 1
            /\ todo' = changes'
            /\ new_diags' = <<>>
            /\ pc' = "set_file_contents"
            /\ UNCHANGED fix_result
    /\ UNCHANGED <<disk, loaded, outdir, vfs, db, args, flags, res, diags,
                   err_in_diag, changed_files, cmd_result, exit_code, stderr,
                   writes, run, tree1>>
    /\ UNCHANGED ext

\* The write-back closure, for the next change: the file is marked changed
\* and its new content goes to the VFS ...
SetFileContents ==
    /\ pc = "set_file_contents"
    /\ changed_files' = changed_files \cup {<<Head(todo).file_id, Head(todo).name>>}
    /\ vfs' = [vfs EXCEPT ![Head(todo).file_id] = Head(todo).source]
    /\ pc' = "apply_change"
    /\ UNCHANGED <<disk, loaded, outdir, db, args, flags, res, diags, err_in_diag,
                   recursion_limit, changes, todo, new_diags, fix_result,
                   cmd_result, exit_code, stderr, writes, calls, failed, run,
                   tree1>>
    /\ UNCHANGED ext

\* ... then to the database ...
ApplyChange ==
    /\ pc = "apply_change"
    /\ db' = [db EXCEPT ![Head(todo).file_id] = Head(todo).source]
    /\ pc' = "do_parse_one"
    /\ UNCHANGED <<disk, loaded, outdir, vfs, args, flags, res, diags, err_in_diag,
                   recursion_limit, changes, todo, new_diags, changed_files,
                   fix_result, cmd_result, exit_code, stderr, writes, calls,
                   failed, run, tree1>>
    /\ UNCHANGED ext

\* ... and the file is parsed again, with the change ranges of the fix.
DoParseOne ==
    /\ pc = "do_parse_one"
    /\ new_diags' = new_diags \o do_parse_one(db[Head(todo).file_id],
                                              Head(todo).file_id,
                                              Head(todo).name,
                                              Head(todo).changes)
    /\ todo' = Tail(todo)
    /\ pc' = IF Tail(todo) = <<>> THEN "filter" ELSE "set_file_contents"
    /\ UNCHANGED <<disk, loaded, outdir, vfs, db, args, flags, res, diags,
                   err_in_diag, recursion_limit, changes, changed_files,
                   fix_result, cmd_result, exit_code, stderr, writes, calls,
                   failed, run, tree1>>
    /\ UNCHANGED ext

\* The end of the loop body: the new entries are filtered, by their change
\* ranges only, and the loop goes on if the run is recursive.
FilterNewDiags ==
    /\ pc = "filter"
    /\ diags' = filter_diagnostics(NoneNum, NoneStr, NoneNum, NoneNum, new_diags)
    /\ \E rec \in Bool :
        /\ Read("recursive", Bool, rec)
        /\ flags' = [flags EXCEPT !.recursive = rec]
        /\ pc' = IF rec = "true" THEN "loop" ELSE "write"
    /\ UNCHANGED <<disk, loaded, outdir, vfs, db, args, res, err_in_diag,
                   recursion_limit, changes, todo, new_diags, changed_files,
                   fix_result, cmd_result, exit_code, stderr, writes, calls,
                   failed, run, tree1>>
    /\ UNCHANGED ext

ChangedIds == {c[1] : c \in changed_files}

\* write_fix_result for every changed file: to its own path in place, to
\* the output directory otherwise, nowhere without either.  Creating or
\* writing a file may fail; the result of write_fix_result is dropped.
WritesTo(in_place, to) ==
    IF in_place = "true" THEN "disk" ELSE IF to = "dir" THEN "outdir" ELSE "nowhere"

WriteFixResults ==
    /\ pc = "write"
    /\ \E ip \in Bool, to \in {"none", "dir"}, written \in SUBSET ChangedIds :
        /\ Read("in_place", Bool, ip)
        /\ Read("to", {"none", "dir"}, to)
        /\ WritesTo(ip, to) = "nowhere" => written = {}
        /\ flags' = [flags EXCEPT !.in_place = ip, !.to = to]
        /\ disk' = IF WritesTo(ip, to) = "disk"
                   THEN [f \in Files |-> IF f \in written THEN vfs[f] ELSE disk[f]]
                   ELSE disk
        /\ outdir' = IF WritesTo(ip, to) = "outdir"
                     THEN [f \in Files |-> IF f \in written THEN vfs[f] ELSE outdir[f]]
                     ELSE outdir
        /\ writes' = [f \in Files |->
                        writes[f] + (IF f \in written
                                     THEN Cardinality({c \in changed_files : c[1] = f})
                                     ELSE 0)]
        /\ failed' = failed \cup
                     (IF WritesTo(ip, to) # "nowhere" /\ written # ChangedIds
                      THEN {"write"} ELSE {})
    /\ fix_result' = "Ok"
    /\ pc' = "finish"
    /\ UNCHANGED <<loaded, vfs, db, args, res, diags, err_in_diag,
                   recursion_limit, changes, todo, new_diags, changed_files,
                   cmd_result,
                   exit_code, stderr, calls, run, tree1>>
    /\ UNCHANGED ext

\* The end of do_codemod: an error of apply_relevant_fixes is printed
\* ("Apply fix failed") and dropped; the result is an error if err_in_diag.
Finish ==
    /\ pc = "finish"
    /\ cmd_result' = IF err_in_diag THEN "Err" ELSE "Ok"
    /\ pc' = "handle_res"
    /\ UNCHANGED <<disk, loaded, outdir, vfs, db, args, flags, res, diags,
                   err_in_diag, recursion_limit, changes, todo, new_diags,
                   changed_files, fix_result, exit_code, stderr, writes, calls,
                   failed, run, tree1>>
    /\ UNCHANGED ext

\* main: handle_res turns the result into the exit code.
HandleRes ==
    /\ pc = "handle_res"
    /\ exit_code' = handle_res(cmd_result)
    /\ stderr' = (cmd_result = "Err")
    /\ pc' = "exit"
    /\ UNCHANGED <<disk, loaded, outdir, vfs, db, args, flags, res, diags,
                   err_in_diag, recursion_limit, changes, todo, new_diags,
                   changed_files, fix_result, cmd_result, writes, calls,
                   failed, run, tree1>>
    /\ UNCHANGED ext

\* The command is run once more with the same arguments on the tree the
\* first run left: load_project_at fills the VFS and the database from disk.
Rerun ==
    /\ pc = "exit"
    /\ run = 1
    /\ run' = 2
    /\ tree1' = [disk |-> disk, outdir |-> outdir, exit_code |-> exit_code]
    /\ loaded' = disk
    /\ vfs' = disk
    /\ db' = disk
    /\ pc' = "start"
    /\ res' = <<>>
    /\ diags' = <<>>
    /\ err_in_diag' = FALSE
    /\ recursion_limit' = LINT_APPLICATION_RECURSION_LIMIT
    /\ changes' = <<>>
    /\ todo' = <<>>
    /\ new_diags' = <<>>
    /\ changed_files' = {}
    /\ fix_result' = "none"
    /\ cmd_result' = "none"
    /\ exit_code' = ExitOk
    /\ stderr' = FALSE
    /\ writes' = NoWrites
    /\ calls' = 0
    /\ UNCHANGED <<disk, outdir, args, flags, failed>>
    /\ UNCHANGED ext

Next ==
    \/ ParseAndFilter
    \/ Report
    \/ ApplyFix
    \/ ApplyDiagnosticsFixes
    \/ SetFileContents
    \/ ApplyChange
    \/ DoParseOne
    \/ FilterNewDiags
    \/ WriteFixResults
    \/ Finish
    \/ HandleRes

Spec == Init /\ [][Next]_vars

\* Two runs in a row of the recursive codemod, with no selector but the
\* diagnostic code.
InitTwice ==
    /\ Init
    /\ args.module = NoneNum
    /\ args.diagnostic_filter.some
    /\ args.line_from = NoneNum
    /\ args.line_to = NoneNum

NextTwice == Next \/ Rerun

SpecTwice == InitTwice /\ [][NextTwice]_vars

(* ------------------- filter_diagnostics on its own ---------------------- *)

\* The inputs of filter_diagnostics drawn freely: the four selectors, and
\* parse entries that carry change ranges.
FilterKinds == {"ok", "tm", "hm"}

FilterTrees ==
    {t \in [Files -> [1..LinesPerFile -> FilterKinds]] : DirtyLines(t) <= MaxDirty}

LineOptions == {NoneNum} \cup {SomeNum(l) : l \in LineNos}

FilterArgs ==
    [module : {NoneNum, SomeNum(ModuleName(1))},
     diagnostic_filter : {NoneStr, SomeStr(as_code(Code("HeadMismatch"))),
                          SomeStr(as_label(Code("HeadMismatch")))},
     line_from : LineOptions,
     line_to : LineOptions]

ChangeLists ==
    {<<>>, <<<<0, 0>>>>, <<<<0, LinesPerFile - 1>>>>,
     <<<<LinesPerFile - 1, LinesPerFile - 1>>>>,
     <<<<0, 0>>, <<LinesPerFile - 1, LinesPerFile - 1>>>>}

ParseWithChanges(tree, ch) ==
    Concat([f \in 1..Cardinality(Files) |->
              do_parse_one(tree[f], f, ModuleName(f), ch[f])])

InitFilter ==
    /\ disk \in FilterTrees
    /\ loaded = disk
    /\ outdir = NoTree
    /\ vfs = disk
    /\ db = disk
    /\ args \in FilterArgs
    /\ flags = [print_diags |-> "unset", apply_fix |-> "unset",
                recursive |-> "unset", in_place |-> "unset", to |-> "unset"]
    /\ pc = "filter_in"
    /\ \E ch \in [Files -> ChangeLists] : res = ParseWithChanges(db, ch)
    /\ diags = <<>>
    /\ err_in_diag = FALSE
    /\ recursion_limit = LINT_APPLICATION_RECURSION_LIMIT
    /\ changes = <<>>
    /\ todo = <<>>
    /\ new_diags = <<>>
    /\ changed_files = {}
    /\ fix_result = "none"
    /\ cmd_result = "none"
    /\ exit_code = ExitOk
    /\ stderr = FALSE
    /\ writes = NoWrites
    /\ calls = 0
    /\ failed = {}
    /\ run = 1
    /\ tree1 = [disk |-> NoTree, outdir |-> NoTree, exit_code |-> ExitOk]
    /\ input = <<>>
    /\ output = <<>>
    /\ InitHost

FilterDiagnostics ==
    /\ pc = "filter_in"
    /\ diags' = filter_diagnostics(args.module, args.diagnostic_filter,
                                   args.line_from, args.line_to, res)
    /\ pc' = "filter_out"
    /\ UNCHANGED <<disk, loaded, outdir, vfs, db, args, flags, res,
                   err_in_diag, recursion_limit, changes, todo, new_diags,
                   changed_files, fix_result, cmd_result, exit_code, stderr,
                   writes, calls, failed, run, tree1>>
    /\ UNCHANGED ext

NextFilter == FilterDiagnostics

SpecFilter == InitFilter /\ [][NextFilter]_vars

(* ============================ properties ================================ *)

\* What the selectors of the command line select on the tree as loaded.
Selected ==
    filter_diagnostics(args.module, args.diagnostic_filter, args.line_from,
                       args.line_to, ParseSelected(args.module, loaded))

\* apply_relevant_fixes has returned.
Returned == pc \in {"finish", "handle_res", "exit"} /\ flags.apply_fix = "true"

(* ---- C1 ---- *)

\* C1: in recursive mode, when every iteration produces a change, the
\* counter (10) is used up and apply_relevant_fixes returns the error
\* "Hit recursion limit": the eleventh call of apply_diagnostics_fixes that
\* still finds changes ends in an error, never in a normal return.
C1_RecursionLimitIsError ==
    (/\ Returned
     /\ flags.recursive = "true"
     /\ calls = LINT_APPLICATION_RECURSION_LIMIT + 1
     /\ changes # <<>>)
    => fix_result = "Err"

(* ---- C2 ---- *)

\* C2: in an iteration at most one fix is applied per file, the first fix
\* of the selected diagnostic: the changes written back in one iteration
\* are each the first fix of a diagnostic, and no two are for the same file.
C2_OneFixPerFile ==
    pc = "set_file_contents" =>
        \A i, j \in 1..Len(changes) :
            /\ changes[i].fix_no = 1
            /\ changes[i].file_id = changes[j].file_id => i = j

(* ---- C3 ---- *)

\* The four conditions and the change ranges, for a diagnostic d of entry e.
C3_Selects(e, d) ==
    /\ args.module.some => e.name = args.module.val
    /\ args.diagnostic_filter.some =>
           as_code(d.code) = args.diagnostic_filter.val
    /\ args.line_from.some => args.line_from.val <= d.line
    /\ args.line_to.some => d.line <= args.line_to.val
    /\ e.changes # <<>> =>
           \E r \in Range(e.changes) : r[1] <= d.line /\ d.line <= r[2]

\* C3: filter_diagnostics keeps a diagnostic exactly when its module is
\* the module asked for, its code the code asked for, its line within
\* line_from..line_to (each when given) and, when the entry has change
\* ranges, within one of them (ends included); an entry with nothing kept
\* is left out of the result.
C3_FilterKeepsExactly ==
    pc = "filter_out" =>
        /\ \A i \in 1..Len(res) :
              LET e == res[i]
                  kept == SelectSeq(e.ds, LAMBDA d : C3_Selects(e, d))
                  out == {k \in 1..Len(diags) : diags[k].file_id = e.file_id}
              IN IF kept = <<>>
                 THEN out = {}
                 ELSE /\ Cardinality(out) = 1
                      /\ \A k \in out : diags[k].name = e.name /\ diags[k].ds = kept
        /\ \A k \in 1..Len(diags) :
              \E i \in 1..Len(res) : res[i].file_id = diags[k].file_id

\* An entry with change ranges of which one diagnostic is kept because
\* its line is the upper end of a range, and another is dropped.
C3_Witness ==
    /\ pc = "filter_out"
    /\ diags # <<>>
    /\ \E i \in 1..Len(res) : \E a, b \in 1..Len(res[i].ds) :
          /\ res[i].changes # <<>>
          /\ C3_Selects(res[i], res[i].ds[a])
          /\ \E r \in Range(res[i].changes) : r[2] = res[i].ds[a].line
          /\ ~C3_Selects(res[i], res[i].ds[b])

(* ---- C4 ---- *)

\* A diagnostic with a fix that apply_one_fix can apply.
HasApplicableFix(d) ==
    d.fixes.some /\ \E i \in 1..Len(d.fixes.list) : d.fixes.list[i].resolved

\* The recursive loop has stopped with the counter not used up.
C4_StoppedEarly ==
    /\ pc = "write"
    /\ flags.recursive # "false"
    /\ recursion_limit > 0

C5_ChangedModulesWritten ==
    (Returned /\ fix_result = "Ok") =>
        \A f \in Files :
            IF f \in ChangedIds
            THEN /\ writes[f] = 1
                 /\ (IF flags.in_place = "true" THEN disk ELSE outdir)[f] = vfs[f]
            ELSE writes[f] = 0

(* ---- C6 ---- *)

\* Nothing selected, or no selected diagnostic with a fix to apply.
C6_NothingToApply ==
    LET sel == Selected
    IN \A i \in 1..Len(sel) : \A j \in 1..Len(sel[i].ds) :
           ~HasApplicableFix(sel[i].ds[j])

\* C6: when the selection is empty, or no selected diagnostic yields an
\* applicable fix, do_codemod ends with the VFS and the database as loaded
\* and with no file written.
C6_EmptySelectionIsNoOp ==
    (pc = "exit" /\ args.diagnostic_filter.some /\ C6_NothingToApply) =>
        /\ vfs = loaded
        /\ db = loaded
        /\ disk = loaded
        /\ outdir = NoTree
        /\ writes = NoWrites

\* A run that went through apply_relevant_fixes with a selection that is
\* not empty but has nothing to apply, and wrote its (no) files.
C6_Witness ==
    /\ pc = "exit"
    /\ args.diagnostic_filter.some
    /\ C6_NothingToApply
    /\ Selected # <<>>
    /\ flags.apply_fix = "true"
    /\ calls > 0

(* ---- C7 ---- *)

\* C7: after one successful run of the recursive codemod, a second run
\* with the same arguments on the tree it left changes nothing more.
C7_SecondRunChangesNothing ==
    (/\ run = 2
     /\ pc = "exit"
     /\ flags.apply_fix = "true"
     /\ flags.recursive = "true"
     /\ flags.in_place = "true"
     /\ tree1.exit_code = ExitOk
     /\ failed = {})
    => (disk = tree1.disk /\ outdir = tree1.outdir /\ writes = NoWrites)

(* ---- C8 ---- *)

\* C8: when the diagnostic selected for a file has no fixes, the error
\* "No fixes in ..." of apply_fixes comes out of apply_diagnostics_fixes and
\* of apply_relevant_fixes: the file is not silently skipped.
C8_NoFixesIsAnError ==
    (Returned /\ "no_fixes" \in failed) => fix_result = "Err"

(* ---- C9 ---- *)

\* C9: whenever fix application fails (the recursion bound is hit, a fix is
\* missing, a file cannot be written) do_codemod returns an error: the exit
\* code is not zero and a message is on the error channel.
C9_FailureFailsCommand ==
    (pc = "exit" /\ failed # {}) => (exit_code # ExitOk /\ stderr)

(* ---- C10 ---- *)

\* C10: the command exits with 101 exactly when a diagnostic of severity
\* Error is among those the filters select, whether or not diagnostics are
\* printed, and with 0 otherwise.
C10_ExitCodeTracksErrors ==
    (pc = "exit" /\ args.diagnostic_filter.some) =>
        (exit_code = ExitErr <=> HasError(Selected))

(* ---- C11 ---- *)

\* C11: --diagnostic-filter takes either form of a code: filtering with
\* the label of a code selects exactly what filtering with its short code
\* selects.
C11_LabelSelectsAsCode ==
    (pc = "filter_out" /\ args.diagnostic_filter.some) =>
        \A c \in Range(PassOrder) :
            args.diagnostic_filter.val = as_label(c) =>
                diags = filter_diagnostics(args.module, SomeStr(as_code(c)),
                                           args.line_from, args.line_to, res)

(* ----------------------- the code functions on their own ---------------- *)

\* The longest string drawn as the data of a code or as an input of from_str.
MaxStrLen == 5

\* Strings of up to MaxStrLen characters, one character of each class.
ShortStrings ==
    UNION {[1..n -> {"W", "0", "a", " "}] : n \in 0..MaxStrLen}

\* The strings given to from_str: the short strings, bare and after the
\* ad-hoc prefix, and both forms of every variant.
StringInputs ==
    ShortStrings
    \cup {AdHocPrefix \o s : s \in ShortStrings}
    \cup {as_code(Code(Variants[i])) : i \in 1..Len(Variants)}
    \cup {as_label(Code(Variants[i])) : i \in 1..Len(Variants)}

\* The code values: every variant, the ones with data over the short strings
\* and over what the program and its tests put there.
CodeInputs ==
    {Code(v) : v \in Range(Variants) \ OpenVariants}
    \cup {[variant |-> v, s |-> s] : v \in OpenVariants, s \in ShortStrings}
    \cup {Missing(<<"m", "i", "s", "s", "i", "n", "g", "_", "c", "o", "m", "m", "a">>),
          Missing(<<"m", "i", "s", "s", "i", "n", "g", "_", "s", "e", "m", "i">>),
          ErlangService(<<"L", "1", "2", "1", "3">>),
          AdHoc(<<"t", "i", "t", "l", "e", "-", "1">>)}

InitCode ==
    /\ Init
    /\ disk = [f \in Files |-> [i \in 1..LinesPerFile |-> "ok"]]
    /\ args = [module |-> NoneNum, diagnostic_filter |-> NoneStr,
               line_from |-> NoneNum, line_to |-> NoneNum]

\* A string is drawn and parsed.
FromStr ==
    /\ pc = "start"
    /\ \E s \in StringInputs :
        /\ input' = [s |-> s]
        /\ output' = from_str(s)
    /\ pc' = "from_str"
    /\ UNCHANGED <<disk, loaded, outdir, vfs, db, args, flags, res, diags,
                   err_in_diag, recursion_limit, changes, todo, new_diags,
                   changed_files, fix_result, cmd_result, exit_code, stderr,
                   writes, calls, failed, run, tree1, host, snapshots>>

\* A code is drawn, written in both forms, and each form is parsed.
CodeRoundTrip ==
    /\ pc = "start"
    /\ \E c \in CodeInputs :
        /\ input' = [c |-> c]
        /\ output' = [code |-> from_str(as_code(c)),
                      label |-> from_str(as_label(c))]
    /\ pc' = "round_trip"
    /\ UNCHANGED <<disk, loaded, outdir, vfs, db, args, flags, res, diags,
                   err_in_diag, recursion_limit, changes, todo, new_diags,
                   changed_files, fix_result, cmd_result, exit_code, stderr,
                   writes, calls, failed, run, tree1, host, snapshots>>

NextCode == FromStr \/ CodeRoundTrip

SpecCode == InitCode /\ [][NextCode]_vars

(* ---- C15 ---- *)

\* C15: every code value c survives the round trip through either of its
\* strings: from_str(c.as_code()) = Ok(c) and from_str(c.as_label()) = Ok(c).
C15_RoundTrip ==
    pc = "round_trip" =>
        /\ output.code = [ok |-> TRUE, val |-> input.c]
        /\ output.label = [ok |-> TRUE, val |-> input.c]

(* ---- C16 ---- *)

\* The variants that are one code each, and Missing, whose strings are fixed.
C16_TableCodes ==
    {Code(v) : v \in Range(Variants) \ {"ErlangService", "AdHoc"}}

\* C16: maybe_from_string takes a string that is the short code or the
\* label of a code of the enumeration to that code; otherwise a string
\* "ad-hoc: <name>" with a name free of whitespace to AdHoc(name); otherwise
\* a string matching ^[A-Z]+[0-9]{4}$ to ErlangService(s); any other string
\* to nothing (from_str gives Err).
C16_Classification ==
    pc = "from_str" =>
        LET s == input.s
            named == {c \in C16_TableCodes : as_code(c) = s \/ as_label(c) = s}
            name == SubSeq(s, Len(AdHocPrefix) + 1, Len(s))
        IN IF named # {}
           THEN output.ok /\ output.val \in named
           ELSE IF /\ Len(s) >= Len(AdHocPrefix)
                   /\ SubSeq(s, 1, Len(AdHocPrefix)) = AdHocPrefix
                   /\ \A i \in 1..Len(name) : name[i] \notin WhitespaceChars
           THEN output = [ok |-> TRUE, val |-> AdHoc(name)]
           ELSE IF /\ Len(s) >= 5
                   /\ \A i \in 1..(Len(s) - 4) : s[i] \in UpperChars
                   /\ \A i \in (Len(s) - 3)..Len(s) : s[i] \in DigitChars
           THEN output = [ok |-> TRUE, val |-> ErlangService(s)]
           ELSE ~output.ok

(* ------------------ the diagnostics of one file, alone ------------------ *)

\* The longest file drawn as an input of the diagnostics.
MaxLines == 3

DiagLineKinds == {"ok", "tm", "urf", "hm", "ms", "call"} \cup CommentKinds

RECURSIVE TextsOfLen(_)
TextsOfLen(n) ==
    IF n = 0 THEN {<<>>}
    ELSE {Append(t, k) : t \in TextsOfLen(n - 1), k \in DiagLineKinds}

DiagTexts == UNION {TextsOfLen(n) : n \in 1..MaxLines}

\* Configurations, all with the ad-hoc call-site pass registered.
DiagConfigs ==
    [disable_experimental : BOOLEAN,
     disabled : {{}, {Code("UnusedRecordField")}, {Code("HeadMismatch")}},
     adhoc_semantic_diagnostics : {TRUE}]

\* diagnostics() of one file under one configuration.
Diagnostics ==
    /\ pc = "start"
    /\ \E config \in DiagConfigs, text \in DiagTexts :
           /\ input' = [config |-> config, text |-> text]
           /\ output' = diagnostics_with(config, text)
    /\ pc' = "diagnostics"
    /\ UNCHANGED <<disk, loaded, outdir, vfs, db, args, flags, res, diags,
                   err_in_diag, recursion_limit, changes, todo, new_diags,
                   changed_files, fix_result, cmd_result, exit_code, stderr,
                   writes, calls, failed, run, tree1, host, snapshots>>

NextDiag == Diagnostics

SpecDiag == InitCode /\ [][NextDiag]_vars

\* The comment holds "% elp:ignore" followed by the code or the label of the
\* given diagnostic code as a word of its own.
Names(comment, code) ==
    LET start == find(comment, <<"%", " ", "e", "l", "p", ":", "i", "g", "n", "o", "r", "e">>)
        words == IF start = 0 THEN <<>>
                 ELSE split_whitespace(SubSeq(comment, start, Len(comment)))
    IN \E i \in 2..Len(words) :
           \/ words[i] = as_code(code)
           \/ words[i] = as_label(code)
           \/ /\ i < Len(words)
              /\ words[i] \o <<" ">> \o words[i + 1] = as_code(code)

\* The line above the diagnostic is an ignore comment naming its code.
NamedAbove(d, text) ==
    /\ d.line >= 1
    /\ text[d.line] \in CommentKinds
    /\ Names(CommentText(text[d.line]), d.code)

\* C14: a diagnostic whose preceding line is an ignore comment naming its
\* code or label is not in the result of diagnostics(), whatever its code.
C14_IgnoreCommentSuppresses ==
    pc = "diagnostics" =>
        \A d \in Range(produced(input.config, input.text)) :
            NamedAbove(d, input.text) => d \notin Range(output)

AsciiOrder ==
    <<" ", "-", "0", "1", "2", "3", "4", "5", "6", "7", "8", "9", ":",
      "A", "B", "C", "D", "E", "F", "G", "H", "I", "J", "K", "L", "M", "N",
      "O", "P", "Q", "R", "S", "T", "U", "V", "W", "X", "Y", "Z", "_",
      "a", "b", "c", "d", "e", "f", "g", "h", "i", "j", "k", "l", "m", "n",
      "o", "p", "q", "r", "s", "t", "u", "v", "w", "x", "y", "z">>

CharRank(ch) == CHOOSE i \in 1..Len(AsciiOrder) : AsciiOrder[i] = ch

RECURSIVE StrLeq(_, _)
StrLeq(a, b) ==
    IF a = <<>> THEN TRUE
    ELSE IF b = <<>> THEN FALSE
    ELSE IF Head(a) = Head(b) THEN StrLeq(Tail(a), Tail(b))
    ELSE CharRank(Head(a)) < CharRank(Head(b))

\* C18: consecutive diagnostics of the result are ordered by the start of
\* their range, then by their code.
C18_OrderedByStartThenCode ==
    pc = "diagnostics" =>
        \A i \in 1..(Len(output) - 1) :
            \/ output[i].line < output[i + 1].line
            \/ /\ output[i].line = output[i + 1].line
               /\ StrLeq(as_code(output[i].code), as_code(output[i + 1].code))

\* C19: every diagnostic of the result carries the ignore fix, after the
\* fixes it already had.
C19_EveryDiagnosticHasIgnoreFix ==
    pc = "diagnostics" =>
        \A d \in Range(output) :
            /\ d.fixes.some
            /\ d.fixes.list[Len(d.fixes.list)].id = "ignore_problem"

(* ------------------------- the fold over a body ------------------------- *)

Strategies == {"TopDown", "BottomUp", "Both"}

\* The match on the strategy before and after the children of a node.
on_entry(strategy) == strategy \in {"TopDown", "Both"}
on_exit_both_only(strategy) == strategy = "Both"
on_exit(strategy) == strategy \in {"BottomUp", "Both"}

\* A variant of the callback that drops the accumulator it is given.
callback_fresh(acc, ctx) == <<ctx>>

\* The callbacks accumulate the contexts they are called with.
callback(acc, ctx) == Append(acc, ctx)

in_macro(macro_stack) ==
    IF macro_stack = <<>> THEN None ELSE Some(Head(macro_stack))

\* The context of a callback: the phase, the macro frame, the id of the node
\* (its path from the root) and the node (its sort and variant).
CallBackCtx(on, macro_stack, id, node) ==
    [on |-> on, in_macro |-> in_macro(macro_stack), id |-> id,
     sort |-> node.sort, variant |-> node.variant]

RECURSIVE do_fold_expr(_, _, _, _, _)
RECURSIVE do_fold_pat(_, _, _, _, _)
RECURSIVE do_fold_term(_, _, _, _, _)
RECURSIVE fold_exprs(_, _, _, _, _, _)
RECURSIVE fold_pats(_, _, _, _, _, _)
RECURSIVE do_fold_terms(_, _, _, _, _, _)
RECURSIVE fold_cr_clause(_, _, _, _, _, _)
RECURSIVE fold_comprehension(_, _, _, _, _, _, _)

\* The children of a list are numbered from..from + Len - 1 below the node.
fold_exprs(s, exprs, id, from, stack, initial) ==
    IF exprs = <<>> THEN initial
    ELSE fold_exprs(s, Tail(exprs), id, from + 1, stack,
                    do_fold_expr(s, Head(exprs), Append(id, from), stack,
                                 initial))

fold_pats(s, pats, id, from, stack, initial) ==
    IF pats = <<>> THEN initial
    ELSE fold_pats(s, Tail(pats), id, from + 1, stack,
                   do_fold_pat(s, Head(pats), Append(id, from), stack,
                               initial))

do_fold_terms(s, terms, id, from, stack, initial) ==
    IF terms = <<>> THEN initial
    ELSE do_fold_terms(s, Tail(terms), id, from + 1, stack,
                       do_fold_term(s, Head(terms), Append(id, from), stack,
                                    initial))

\* Clause k has its pattern at 100k, its guards from 100k + 10 and its
\* body from 100k + 50.
fold_cr_clause(s, clauses, id, k, stack, initial) ==
    IF clauses = <<>> THEN initial
    ELSE LET clause == Head(clauses)
             r1 == do_fold_pat(s, clause.pat, Append(id, 100 * k), stack,
                               initial)
             r2 == fold_exprs(s, Concat(clause.guards), id, 100 * k + 10,
                              stack, r1)
             r3 == fold_exprs(s, clause.exprs, id, 100 * k + 50, stack, r2)
         IN fold_cr_clause(s, Tail(clauses), id, k + 1, stack, r3)

\* The builder expression is child `at`; generator k has its pattern at
\* 10k + 1 and its expression at 10k + 2.
fold_comprehension(s, expr, at, exprs, id, stack, initial) ==
    LET RECURSIVE gens(_, _, _)
        gens(es, k, acc) ==
            IF es = <<>> THEN acc
            ELSE LET g == Head(es)
                     r == IF g.variant = "ListGenerator"
                          THEN do_fold_expr(s, g.expr, Append(id, 10 * k + 2),
                                   stack,
                                   do_fold_pat(s, g.pat,
                                       Append(id, 10 * k + 1), stack, acc))
                          ELSE do_fold_expr(s, g.expr, Append(id, 10 * k + 2),
                                   stack, acc)
                 IN gens(Tail(es), k + 1, r)
    IN gens(exprs, 1, do_fold_expr(s, expr, Append(id, at), stack, initial))

do_fold_expr(s, expr, expr_id, stack, initial) ==
    LET acc == IF on_entry(s)
               THEN callback(initial,
                             CallBackCtx("Entry", stack, expr_id, expr))
               ELSE initial
        r == CASE expr.variant = "Var" -> acc
               [] expr.variant = "Match" ->
                    do_fold_expr(s, expr.rhs, Append(expr_id, 2), stack,
                        do_fold_pat(s, expr.lhs, Append(expr_id, 1), stack,
                                    acc))
               [] expr.variant = "Tuple" ->
                    fold_exprs(s, expr.exprs, expr_id, 1, stack, acc)
               [] expr.variant = "MacroCall" ->
                    do_fold_expr(s, expr.expansion, Append(expr_id, 1),
                                 Append(stack, expr_id), acc)
               [] expr.variant = "Comprehension" ->
                    IF expr.builder.variant = "Map"
                    THEN fold_comprehension(s, expr.builder.value, 2,
                             expr.exprs, expr_id, stack,
                             fold_comprehension(s, expr.builder.key, 1,
                                 expr.exprs, expr_id, stack, acc))
                    ELSE fold_comprehension(s, expr.builder.expr, 1,
                             expr.exprs, expr_id, stack, acc)
               [] expr.variant = "Case" ->
                    fold_cr_clause(s, expr.clauses, expr_id, 1, stack,
                        do_fold_expr(s, expr.expr, Append(expr_id, 1), stack,
                                     acc))
    IN IF on_exit(s)
       THEN callback(r, CallBackCtx("Exit", stack, expr_id, expr))
       ELSE r

do_fold_pat(s, pat, pat_id, stack, initial) ==
    LET acc == IF on_entry(s)
               THEN callback(initial,
                             CallBackCtx("Entry", stack, pat_id, pat))
               ELSE initial
        r == CASE pat.variant = "Var" -> acc
               [] pat.variant = "Tuple" ->
                    fold_pats(s, pat.pats, pat_id, 1, stack, acc)
               [] pat.variant = "MacroCall" ->
                    fold_exprs(s, pat.args, pat_id, 2, stack,
                        do_fold_pat(s, pat.expansion, Append(pat_id, 1),
                                    stack, acc))
    IN IF on_exit(s)
       THEN callback(r, CallBackCtx("Exit", stack, pat_id, pat))
       ELSE r

do_fold_term(s, term, term_id, stack, initial) ==
    LET acc == IF on_entry(s)
               THEN callback(initial,
                             CallBackCtx("Entry", stack, term_id, term))
               ELSE initial
        r == CASE term.variant = "Literal" -> acc
               [] term.variant = "Tuple" ->
                    do_fold_terms(s, term.exprs, term_id, 1, stack, acc)
               [] term.variant = "List" ->
                    LET r1 == do_fold_terms(s, term.exprs, term_id, 1, stack,
                                            acc)
                    IN IF term.tail.some
                       THEN do_fold_term(s, term.tail.val,
                                         Append(term_id, 0), stack, r1)
                       ELSE r1
               [] term.variant = "MacroCall" ->
                    do_fold_term(s, term.expansion, Append(term_id, 1), stack,
                                 acc)
    IN IF on_exit(s)
       THEN callback(r, CallBackCtx("Exit", stack, term_id, term))
       ELSE r

\* fold_expr, fold_pat and fold_term: the fold from a root with an empty
\* macro stack and the empty accumulator.
fold(strategy, root) ==
    CASE root.sort = "expr" -> do_fold_expr(strategy, root, <<>>, <<>>, <<>>)
      [] root.sort = "pat" -> do_fold_pat(strategy, root, <<>>, <<>>, <<>>)
      [] root.sort = "term" -> do_fold_term(strategy, root, <<>>, <<>>, <<>>)

\* The deepest nesting of the bodies drawn.
MaxDepth == 3

ExprVar == [sort |-> "expr", variant |-> "Var"]
PatVar == [sort |-> "pat", variant |-> "Var"]
TermLiteral == [sort |-> "term", variant |-> "Literal"]

\* Bodies of nesting up to d: every node has at most one child that is not
\* a leaf.
RECURSIVE ExprsOfDepth(_)
RECURSIVE PatsOfDepth(_)
ExprsOfDepth(d) ==
    IF d = 0 THEN {ExprVar}
    ELSE LET E == ExprsOfDepth(d - 1)
             P == PatsOfDepth(d - 1)
             gen(p, e) == [variant |-> "ListGenerator", pat |-> p, expr |-> e]
             node(v) == [sort |-> "expr", variant |-> v]
         IN {ExprVar}
            \cup {node("Match") @@ [lhs |-> p, rhs |-> ExprVar] : p \in P}
            \cup {node("Match") @@ [lhs |-> PatVar, rhs |-> e] : e \in E}
            \cup {node("Tuple") @@ [exprs |-> <<e, ExprVar>>] : e \in E}
            \cup {node("MacroCall")
                      @@ [expansion |-> e, args |-> <<ExprVar>>] : e \in E}
            \cup {node("Comprehension")
                      @@ [builder |-> [variant |-> "List", expr |-> e],
                          exprs |-> <<gen(PatVar, ExprVar)>>] : e \in E}
            \cup {node("Comprehension")
                      @@ [builder |-> [variant |-> "Map", key |-> ExprVar,
                                       value |-> ExprVar],
                          exprs |-> <<gen(p, ExprVar)>>] : p \in P}
            \cup {node("Comprehension")
                      @@ [builder |-> [variant |-> "List", expr |-> ExprVar],
                          exprs |-> <<[variant |-> "Expr", expr |-> e]>>]
                      : e \in E}
            \cup {node("Case")
                      @@ [expr |-> ExprVar,
                          clauses |-> <<[pat |-> p, guards |-> <<<<ExprVar>>>>,
                                         exprs |-> <<e>>]>>]
                      : p \in {PatVar}, e \in E}

PatsOfDepth(d) ==
    IF d = 0 THEN {PatVar}
    ELSE LET E == ExprsOfDepth(d - 1)
             P == PatsOfDepth(d - 1)
             node(v) == [sort |-> "pat", variant |-> v]
         IN {PatVar}
            \cup {node("Tuple") @@ [pats |-> <<PatVar, p>>] : p \in P}
            \cup {node("MacroCall")
                      @@ [expansion |-> p, args |-> <<ExprVar>>] : p \in P}
            \cup {node("MacroCall")
                      @@ [expansion |-> PatVar, args |-> <<e>>] : e \in E}

RECURSIVE TermsOfDepth(_)
TermsOfDepth(d) ==
    IF d = 0 THEN {TermLiteral}
    ELSE LET T == TermsOfDepth(d - 1)
             node(v) == [sort |-> "term", variant |-> v]
         IN {TermLiteral}
            \cup {node("Tuple") @@ [exprs |-> <<t, TermLiteral>>] : t \in T}
            \cup {node("List") @@ [exprs |-> <<TermLiteral>>, tail |-> Some(t)]
                      : t \in T}
            \cup {node("List") @@ [exprs |-> <<t>>, tail |-> None] : t \in T}
            \cup {node("MacroCall")
                      @@ [expansion |-> t, args |-> <<TermLiteral>>] : t \in T}

FoldRoots ==
    ExprsOfDepth(MaxDepth) \cup PatsOfDepth(MaxDepth)
        \cup TermsOfDepth(MaxDepth)

\* One fold of one body under one strategy.
Fold ==
    /\ pc = "start"
    /\ \E strategy \in Strategies, root \in FoldRoots :
           /\ input' = [strategy |-> strategy, root |-> root]
           /\ output' = fold(strategy, root)
    /\ pc' = "fold"
    /\ UNCHANGED <<disk, loaded, outdir, vfs, db, args, flags, res, diags,
                   err_in_diag, recursion_limit, changes, todo, new_diags,
                   changed_files, fix_result, cmd_result, exit_code, stderr,
                   writes, calls, failed, run, tree1, host, snapshots>>

NextFold == Fold

SpecFold == InitCode /\ [][NextFold]_vars

\* The number of callback invocations of the fold of the drawn body under
\* a strategy.
Invocations(strategy) ==
    IF strategy = input.strategy THEN Len(output)
    ELSE Len(fold(strategy, input.root))

\* C20: a fold calls its callbacks as often under TopDown as under BottomUp,
\* and twice as often under Both.
C20_CallbackCounts ==
    pc = "fold" =>
        /\ Invocations("TopDown") = Invocations("BottomUp")
        /\ Invocations("Both") = 2 * Invocations("TopDown")

\* A fold under Both of a body with nested nodes, macros included.
C20_Witness ==
    /\ pc = "fold"
    /\ input.strategy = "Both"
    /\ Len(output) >= 8
    /\ \E i \in 1..Len(output) : output[i].in_macro.some

(* --------------------- snapshots and cancellation ----------------------- *)

\* The variables the readers and the writer of the host do not touch.
lint == <<disk, loaded, outdir, vfs, db, args, flags, pc, res, diags,
          err_in_diag, recursion_limit, changes, todo, new_diags,
          changed_files, fix_result, cmd_result, exit_code, stderr, writes,
          calls, failed, run, tree1, input, output>>

\* The number of changes applied to the host.
MaxRevision == 2

\* The texts a change gives the file.
SnapTexts == {"ok", "tm"}

\* Cancellable<T>: the error of a cancelled query.
ErrCancelled == [ok |-> FALSE, val |-> "Cancelled"]

\* The callers of a query in the codemod driver, by what they ask for.
DriverOps ==
    {"do_parse_one", "filter_diagnostics", "apply_one_fix",
     "form_range_from_diff"}

\* What the caller makes of the result of its query: do_parse_one passes
\* the error on with `?`, the others go through `.ok()?`.
caller_outcome(op, result) ==
    IF op = "do_parse_one" THEN result
    ELSE IF result.ok THEN Some(result.val) ELSE None

\* AnalysisHost::analysis (and Analysis::clone): a snapshot of the database
\* at the current revision.  The host is not inside a write.
AnalysisSnapshot(r) ==
    /\ pc = "start"
    /\ snapshots[r].state = "none"
    /\ ~host.pending
    /\ snapshots' = [snapshots EXCEPT ![r] =
                        [NoSnapshot EXCEPT !.state = "idle", !.rev = host.rev]]
    /\ UNCHANGED <<host, lint>>

\* with_db: a query starts; on entry it sees the cancellation flag and
\* unwinds, or reads its first input.
QueryStart(r, op) ==
    /\ pc = "start"
    /\ snapshots[r].state = "idle"
    /\ snapshots' = [snapshots EXCEPT ![r] =
           IF host.pending
           THEN [@ EXCEPT !.state = "done", !.op = op,
                          !.result = ErrCancelled,
                          !.outcome = caller_outcome(op, ErrCancelled)]
           ELSE [@ EXCEPT !.state = "running", !.op = op,
                          !.read = host.text]]
    /\ UNCHANGED <<host, lint>>

\* The query goes on: at its next query call it sees the flag and unwinds
\* (caught by with_db as Err(Cancelled)), or reads again and returns.
QueryFinish(r) ==
    /\ pc = "start"
    /\ snapshots[r].state = "running"
    /\ LET result == IF host.pending THEN ErrCancelled
                     ELSE Ok(<<snapshots[r].read, host.text>>)
       IN snapshots' = [snapshots EXCEPT ![r] =
              [@ EXCEPT !.state = "done", !.result = result,
                        !.outcome = caller_outcome(snapshots[r].op, result)]]
    /\ UNCHANGED <<host, lint>>

\* The Analysis is dropped; its holder keeps what it got.
DropSnapshot(r) ==
    /\ pc = "start"
    /\ snapshots[r].state \in {"idle", "done"}
    /\ snapshots' = [snapshots EXCEPT ![r].state = "none"]
    /\ UNCHANGED <<host, lint>>

\* The write starts: the cancellation flag is raised.
RequestCancellation ==
    /\ pc = "start"
    /\ ~host.pending
    /\ host.rev < MaxRevision
    /\ host' = [host EXCEPT !.pending = TRUE]
    /\ UNCHANGED <<snapshots, lint>>

\* A variant where the write waits only for the queries in flight.
queries_drained == \A r \in Readers : snapshots[r].state # "running"

\* The write waits until every snapshot is dropped.
readers_drained == \A r \in Readers : snapshots[r].state = "none"

\* AnalysisHost::apply_change: with the readers drained the input is set,
\* the revision is bumped and the flag is lowered.
HostApplyChange ==
    /\ pc = "start"
    /\ host.pending
    /\ readers_drained
    /\ \E text \in SnapTexts \ {host.text} :
           host' = [rev |-> host.rev + 1, text |-> text, pending |-> FALSE,
                    hist |-> Append(host.hist, text)]
    /\ UNCHANGED <<snapshots, lint>>

NextSnap ==
    \/ \E r \in Readers : AnalysisSnapshot(r)
    \/ \E r \in Readers, op \in DriverOps : QueryStart(r, op)
    \/ \E r \in Readers : QueryFinish(r)
    \/ \E r \in Readers : DropSnapshot(r)
    \/ RequestCancellation
    \/ HostApplyChange

SpecSnap == InitCode /\ [][NextSnap]_vars

\* C12: what a reader got from a snapshot taken at revision R is the error
\* Cancelled or the result of the query on the inputs of revision R, also
\* after the host has moved on.
C12_SnapshotIsolation ==
    \A r \in Readers :
        LET snap == snapshots[r]
        IN (snap.op # "none" /\ snap.state \in {"done", "none"}) =>
               \/ snap.result = ErrCancelled
               \/ snap.result = Ok(<<host.hist[snap.rev + 1],
                                     host.hist[snap.rev + 1]>>)

\* The host has changed since one reader's query completed on the old
\* state, and another reader's query was cancelled.
C12_Witness ==
    \E r1, r2 \in Readers :
        /\ snapshots[r1].result.ok
        /\ snapshots[r1].rev < host.rev
        /\ snapshots[r2].result = ErrCancelled

ChildIds(node) ==
    LET upto(from, n) == [i \in 1..n |-> from + i - 1]
        gen(g, k) == IF g.variant = "ListGenerator"
                     THEN <<10 * k + 1, 10 * k + 2>> ELSE <<10 * k + 2>>
        gens(gs) == Concat([k \in 1..Len(gs) |-> gen(gs[k], k)])
        clause(c, k) == <<100 * k>>
                        \o upto(100 * k + 10, Len(Concat(c.guards)))
                        \o upto(100 * k + 50, Len(c.exprs))
    IN CASE node.variant \in {"Var", "Literal"} -> <<>>
         [] node.variant = "Match" -> <<1, 2>>
         [] node.variant = "Tuple" /\ node.sort = "expr" ->
                upto(1, Len(node.exprs))
         [] node.variant = "Tuple" /\ node.sort = "pat" ->
                upto(1, Len(node.pats))
         [] node.variant = "Tuple" /\ node.sort = "term" ->
                upto(1, Len(node.exprs))
         [] node.variant = "List" ->
                upto(1, Len(node.exprs))
                    \o (IF node.tail.some THEN <<0>> ELSE <<>>)
         [] node.variant = "MacroCall" -> <<1>> \o upto(2, Len(node.args))
         [] node.variant = "Comprehension" ->
                (IF node.builder.variant = "Map" THEN <<1, 2>> ELSE <<1>>)
                    \o gens(node.exprs)
         [] node.variant = "Case" ->
                <<1>> \o Concat([k \in 1..Len(node.clauses) |->
                                    clause(node.clauses[k], k)])

\* The children of the root the fold visited, in the order of the visits.
DirectVisits ==
    LET on == IF input.strategy = "BottomUp" THEN "Exit" ELSE "Entry"
        at == SelectSeq(output, LAMBDA c : Len(c.id) = 1 /\ c.on = on)
    IN [i \in 1..Len(at) |-> at[i].id[1]]

\* C21: one visit of a node visits every child stored in the node exactly
\* once and in source order.
C21_EveryChildOnceInOrder ==
    pc = "fold" => DirectVisits = ChildIds(input.root)

\* The node of the context lies in the expansion (child 1) of a macro call
\* that was visited above it.
InsideMacro(c) ==
    \E a \in Range(output) :
        /\ a.variant = "MacroCall"
        /\ Len(a.id) < Len(c.id)
        /\ SubSeq(c.id, 1, Len(a.id)) = a.id
        /\ c.id[Len(a.id) + 1] = 1

\* C22: the macro stack is empty around the root, and a callback sees
\* in_macro set exactly when its node lies in the expansion of an enclosing
\* macro call, be it an expression, a pattern or a term.
C22_InMacroIffInsideExpansion ==
    pc = "fold" =>
        \A i \in 1..Len(output) :
            /\ output[i].id = <<>> => ~output[i].in_macro.some
            /\ output[i].in_macro.some <=> InsideMacro(output[i])

(* ------------------- the missing module declaration --------------------- *)

\* The forms of a file by kind: preprocessor directives, file attributes,
\* the module attribute, and two kinds of other forms.
FormKinds == {"pp", "file", "module", "export", "function"}

\* A variant that skips preprocessor directives only.
RECURSIVE no_module_definition_skip_pp(_, _)
no_module_definition_skip_pp(forms, at) ==
    IF at > Len(forms) THEN <<>>
    ELSE IF forms[at] = "pp"
         THEN no_module_definition_skip_pp(forms, at + 1)
    ELSE IF forms[at] = "module" THEN <<>>
    ELSE <<[code |-> Code("MissingModule"), severity |-> "Error",
            line |-> at - 1, fixes |-> NoFixes, experimental |-> FALSE]>>

\* The loop over the forms from form `at` on: what it pushes.
RECURSIVE no_module_definition_diagnostic(_, _)
no_module_definition_diagnostic(forms, at) ==
    IF at > Len(forms) THEN <<>>
    ELSE IF forms[at] \in {"pp", "file"}
         THEN no_module_definition_diagnostic(forms, at + 1)
    ELSE IF forms[at] = "module" THEN <<>>
    ELSE <<[code |-> Code("MissingModule"), severity |-> "Error",
            line |-> at - 1, fixes |-> NoFixes, experimental |-> FALSE]>>

\* no_module_definition_diagnostic on one file.
NoModuleDefinition ==
    /\ pc = "start"
    /\ \E n \in 0..MaxLines : \E forms \in [1..n -> FormKinds] :
           /\ input' = [forms |-> forms]
           /\ output' = no_module_definition_diagnostic(forms, 1)
    /\ pc' = "no_module"
    /\ UNCHANGED <<disk, loaded, outdir, vfs, db, args, flags, res, diags,
                   err_in_diag, recursion_limit, changes, todo, new_diags,
                   changed_files, fix_result, cmd_result, exit_code, stderr,
                   writes, calls, failed, run, tree1, host, snapshots>>

NextModule == NoModuleDefinition

SpecModule == InitCode /\ [][NextModule]_vars

\* C23: at most one diagnostic is reported, an L1201 error on the first form
\* that is neither a preprocessor directive nor a file attribute, exactly
\* when that form is not the module attribute; nothing when there is none.
C23_MissingModuleOnFirstForm ==
    pc = "no_module" =>
        LET forms == input.forms
            rest == {i \in 1..Len(forms) : forms[i] \notin {"pp", "file"}}
            first == CHOOSE i \in rest : \A j \in rest : i <= j
        IN /\ Len(output) <= 1
           /\ \A i \in 1..Len(output) :
                  /\ as_code(output[i].code) = <<"L", "1", "2", "0", "1">>
                  /\ output[i].severity = "Error"
           /\ IF rest # {} /\ forms[first] # "module"
              THEN Len(output) = 1 /\ output[1].line = first - 1
              ELSE output = <<>>

\* A file whose function comes after a file attribute and a directive, and
\* before the module attribute: the function is reported.
C23_Witness ==
    /\ pc = "no_module"
    /\ Len(input.forms) = 3
    /\ input.forms[1] = "file"
    /\ input.forms[2] = "function"
    /\ input.forms[3] = "module"
    /\ Len(output) = 1

\* The command without a module or line selector, on a source tree with no
\* more forms that carry a diagnostic than one file holds.
InitLive == InitTwice /\ DirtyLines(disk) <= LinesPerFile

\* Weak fairness of the command's steps: a step that can be taken is taken.
SpecLive == InitLive /\ [][Next]_vars /\ WF_vars(Next)

\* The counters of apply_relevant_fixes stay in their ranges: at most
\* LIMIT + 1 calls of apply_diagnostics_fixes, at most LIMIT write-backs.
C24_Bounds ==
    /\ recursion_limit \in 0..LINT_APPLICATION_RECURSION_LIMIT
    /\ calls <= LINT_APPLICATION_RECURSION_LIMIT + 1
    /\ pc \in {"set_file_contents", "apply_change", "do_parse_one", "filter"}
           => /\ calls <= LINT_APPLICATION_RECURSION_LIMIT
              /\ calls = LINT_APPLICATION_RECURSION_LIMIT - recursion_limit

\* C24: apply_relevant_fixes terminates, with apply_diagnostics_fixes called
\* at most 11 times, at most 10 write-back iterations and the counter
\* within 0..10.
C24_TerminatesWithinBounds ==
    /\ []C24_Bounds
    /\ (pc = "loop") ~> (pc \in {"write", "finish"})

\* The run used the counter up: the eleventh call still produced changes.
C24_Witness ==
    /\ pc = "exit"
    /\ calls = LINT_APPLICATION_RECURSION_LIMIT + 1
    /\ recursion_limit = 0

\* C25: in every iteration, the diagnostic whose fixes are about to be
\* applied has the code given by --diagnostic-filter and a line within
\* --line-from and --line-to.
C25_SelectionPersists ==
    pc = "loop" =>
        \A i \in 1..Len(diags) :
            (diags[i].ds # <<>> /\ HasApplicableFix(Head(diags[i].ds))) =>
                LET d == Head(diags[i].ds)
                IN /\ args.diagnostic_filter.some
                       => to_string(d.code) = args.diagnostic_filter.val
                   /\ check_from(args.line_from, d.line)
                   /\ check_to(args.line_to, d.line)

(* ------------------ the driver's snapshots and its writes ---------------- *)

\* Where do_codemod and Lints create an Analysis: the position before the
\* statement, the position while the Analysis is held, and where control may
\* be once its block or statement has ended.  The first is the `analysis`
\* of do_codemod's inner block, the others are temporaries.
DriverScopes ==
    [start        |-> [held |-> "block",
                       then |-> {"report", "loop", "finish"}],
     report       |-> [held |-> "print",
                       then |-> {"report", "loop", "finish"}],
     loop         |-> [held |-> "apply_fixes",
                       then |-> {"apply_change", "finish"}],
     do_parse_one |-> [held |-> "parsing",
                       then |-> {"apply_change", "filter"}],
     filter       |-> [held |-> "filtering",
                       then |-> {"loop", "finish"}]]

\* loaded.analysis() and self.analysis_host.analysis(): the driver's latest
\* Analysis (reader 1); and the clone do_parse_all hands to its workers
\* while the block's Analysis is held (reader 2).
DriverAnalysis(r) ==
    /\ IF r = 1
       THEN /\ pc \in DOMAIN DriverScopes
            /\ pc' = DriverScopes[pc].held
       ELSE /\ pc = "block"
            /\ snapshots[1].state # "none"
            /\ snapshots[2].state = "none"
            /\ pc' = pc
    /\ snapshots' = [snapshots EXCEPT ![r] =
                        [NoSnapshot EXCEPT !.state = "idle", !.rev = host.rev]]
    /\ UNCHANGED <<host, disk, loaded, outdir, vfs, db, args, flags, res,
                   diags, err_in_diag, recursion_limit, changes, todo,
                   new_diags, changed_files, fix_result, cmd_result,
                   exit_code, stderr, writes, calls, failed, run, tree1,
                   input, output>>

\* The holder asks its Analysis; no write is under way, the query returns.
DriverQuery(r, op) ==
    /\ snapshots[r].state = "idle"
    /\ LET result == Ok(<<host.text, host.text>>)
       IN snapshots' = [snapshots EXCEPT ![r] =
              [@ EXCEPT !.state = "done", !.op = op, !.read = host.text,
                        !.result = result,
                        !.outcome = caller_outcome(op, result)]]
    /\ UNCHANGED <<host, lint>>

\* A variant where the holder keeps its Analysis beyond the block or
\* statement that created it.
DriverKeep(r) ==
    /\ r = 1
    /\ pc \in {DriverScopes[at].held : at \in DOMAIN DriverScopes}
    /\ snapshots[2].state = "none"
    /\ \E at \in DOMAIN DriverScopes :
           /\ pc = DriverScopes[at].held
           /\ pc' \in DriverScopes[at].then
    /\ pc' = "apply_change" => host.rev < MaxRevision
    /\ UNCHANGED <<snapshots, host, disk, loaded, outdir, vfs, db, args,
                   flags, res, diags, err_in_diag, recursion_limit, changes,
                   todo, new_diags, changed_files, fix_result, cmd_result,
                   exit_code, stderr, writes, calls, failed, run, tree1,
                   input, output>>

\* The end of the block or statement drops the Analysis; the workers'
\* clone is dropped when the parallel iterator is done, before do_parse_all
\* returns into the block.
DriverDrop(r) ==
    /\ snapshots[r].state # "none"
    /\ snapshots' = [snapshots EXCEPT ![r].state = "none"]
    /\ IF r = 1
       THEN /\ snapshots[2].state = "none"
            /\ \E at \in DOMAIN DriverScopes :
                   /\ pc = DriverScopes[at].held
                   /\ pc' \in DriverScopes[at].then
            /\ pc' = "apply_change" => host.rev < MaxRevision
       ELSE pc' = pc
    /\ UNCHANGED <<host, disk, loaded, outdir, vfs, db, args, flags, res,
                   diags, err_in_diag, recursion_limit, changes, todo,
                   new_diags, changed_files, fix_result, cmd_result,
                   exit_code, stderr, writes, calls, failed, run, tree1,
                   input, output>>

\* self.analysis_host.apply_change in apply_relevant_fixes: the write
\* raises the flag and goes through once every snapshot is dropped.
DriverApplyChange ==
    /\ pc = "apply_change"
    /\ readers_drained
    /\ \E text \in SnapTexts \ {host.text} :
           host' = [rev |-> host.rev + 1, text |-> text, pending |-> FALSE,
                    hist |-> Append(host.hist, text)]
    /\ pc' = "do_parse_one"
    /\ UNCHANGED <<snapshots, disk, loaded, outdir, vfs, db, args, flags,
                   res, diags, err_in_diag, recursion_limit, changes, todo,
                   new_diags, changed_files, fix_result, cmd_result,
                   exit_code, stderr, writes, calls, failed, run, tree1,
                   input, output>>

NextDriver ==
    \/ \E r \in Readers : DriverAnalysis(r)
    \/ \E r \in Readers, op \in DriverOps : DriverQuery(r, op)
    \/ \E r \in Readers : DriverDrop(r)
    \/ DriverApplyChange

SpecDriver == InitCode /\ [][NextDriver]_vars

\* C26: when the driver is about to call apply_change, and whenever the host
\* changes, no Analysis the driver created is alive: the write does not wait
\* for a reader of its own thread.
C26_NoSnapshotAtApplyChange ==
    pc = "apply_change" => \A r \in Readers : snapshots[r].state = "none"

\* The driver is about to write for the second time, after the block's
\* Analysis and the workers' clone have both answered queries.
C26_Witness ==
    /\ pc = "apply_change"
    /\ host.rev >= 1
    /\ snapshots[1].op # "none"
    /\ snapshots[2].op # "none"

\* C27: a fix result goes to the VFS, then with the same content to the
\* database, then the file is parsed again; between iterations the VFS and
\* the database hold the same text of every touched file, and the entries
\* of the re-parse are the diagnostics of the text the database now holds.
C27_WriteBackInStep ==
    /\ pc = "do_parse_one" =>
           /\ vfs[Head(todo).file_id] = Head(todo).source
           /\ db[Head(todo).file_id] = Head(todo).source
    /\ pc \in {"loop", "filter", "write", "finish"} =>
           \A f \in ChangedIds : vfs[f] = db[f]
    /\ pc = "filter" =>
           \A i \in 1..Len(new_diags) :
               new_diags[i].ds = diagnostics(db[new_diags[i].file_id])

\* C28: without --recursive there is one round of fixes: the fixes were
\* computed once, no file was given a new content twice, every touched file
\* holds the result of the fix of that round on the text that was loaded,
\* and the run goes on to write the touched files out.
C28_OneRoundWhenNotRecursive ==
    flags.recursive = "false" =>
        /\ calls = 1
        /\ pc \in {"write", "finish", "handle_res", "exit"}
        /\ ChangedIds = {changes[i].file_id : i \in 1..Len(changes)}
        /\ \A i, j \in 1..Len(changes) :
               changes[i].file_id = changes[j].file_id => i = j
        /\ \A f \in Files :
               IF f \in ChangedIds
               THEN \E i \in 1..Len(changes) :
                        /\ changes[i].file_id = f
                        /\ vfs[f] = changes[i].source
               ELSE vfs[f] = loaded[f]

\* Whether the node of path q lies in the subtree below the node of path p.
Below(p, q) == Len(p) < Len(q) /\ SubSeq(q, 1, Len(p)) = p

\* The events of one phase in a trace.
EventsOf(trace, on) == SelectSeq(trace, LAMBDA c : c.on = on)

\* C29: in every visit of a node, under TopDown its callback runs before
\* those of its subtree and under BottomUp after them; under Both every
\* Entry is closed by the Exit of the same id with only events of its
\* subtree in between, and every Exit closes such an Entry; the one
\* accumulator handed from callback to callback holds, under Both, the
\* Entry events in the order of TopDown and the Exit events in the order of
\* BottomUp.
C29_CallbackOrder ==
    pc = "fold" =>
        LET n == Len(output)
            id(i) == output[i].id
            parent(i) == SubSeq(id(i), 1, Len(id(i)) - 1)
            both == fold("Both", input.root)
        IN /\ input.strategy = "TopDown" =>
                  /\ \A j \in 1..n : id(j) # <<>> =>
                         \E i \in 1..(j - 1) :
                             /\ id(i) = parent(j)
                             /\ \A k \in (i + 1)..(j - 1) : Below(id(i), id(k))
                  /\ output = EventsOf(both, "Entry")
           /\ input.strategy = "BottomUp" =>
                  /\ \A j \in 1..n : id(j) # <<>> =>
                         \E i \in (j + 1)..n :
                             /\ id(i) = parent(j)
                             /\ \A k \in (j + 1)..(i - 1) : Below(id(i), id(k))
                  /\ output = EventsOf(both, "Exit")
           /\ input.strategy = "Both" =>
                  /\ \A i \in 1..n : output[i].on = "Entry" =>
                         \E j \in (i + 1)..n :
                             /\ output[j].on = "Exit"
                             /\ id(j) = id(i)
                             /\ \A k \in (i + 1)..(j - 1) : Below(id(i), id(k))
                  /\ \A j \in 1..n : output[j].on = "Exit" =>
                         \E i \in 1..(j - 1) :
                             /\ output[i].on = "Entry"
                             /\ id(i) = id(j)
                             /\ \A k \in (i + 1)..(j - 1) : Below(id(i), id(k))
                  /\ n > 0
                  /\ id(1) = <<>> /\ id(n) = <<>>

\* A fold under Both that visits a node with children twice.
C29_Witness ==
    /\ pc = "fold"
    /\ input.strategy = "Both"
    /\ \E i, j \in 1..Len(output) :
           /\ i < j
           /\ output[i] = output[j]
           /\ output[i].on = "Entry"
           /\ \E k \in 1..Len(output) : Below(output[i].id, output[k].id)

(* ------------------------ do_parse_all in parallel ---------------------- *)

\* The project do_parse_all runs on: the text of every own module, what the
\* database says of its file (otp_file_to_ignore, file_app_type,
\* file_app_name), and the apps of --ignore-apps.
ParAllStart ==
    /\ pc = "start"
    /\ \E text \in [Files -> {[i \in 1..LinesPerFile |->
                                  IF i = 1 THEN k ELSE "ok"] :
                              k \in {"ok", "tm", "hm"}}],
          app \in [Files -> [otp_ignored : BOOLEAN,
                             app_type : {"App", "Dep"},
                             app_name : {"a", "b"}]],
          ignore_apps \in SUBSET {"a"} :
           input' = [text |-> text, app |-> app, ignore_apps |-> ignore_apps]
    /\ todo' = [i \in 1..Cardinality(Files) |->
                   CHOOSE f \in Files : Cardinality({g \in Files : g < f}) = i - 1]
    /\ res' = <<>>
    /\ pc' = "par_bridge"
    /\ UNCHANGED <<disk, loaded, outdir, vfs, db, args, flags, diags,
                   err_in_diag, recursion_limit, changes, new_diags,
                   changed_files, fix_result, cmd_result, exit_code, stderr,
                   writes, calls, failed, run, tree1, output, host,
                   snapshots>>

\* par_bridge and map_with: a worker that is free takes the next module of
\* the shared iterator; it works on its own clone of the Analysis.
WorkerTake(r) ==
    /\ pc = "par_bridge"
    /\ todo # <<>>
    /\ snapshots[r].state \in {"none", "idle"}
    /\ snapshots' = [snapshots EXCEPT ![r] =
           [NoSnapshot EXCEPT !.state = "running", !.rev = host.rev,
                              !.op = "do_parse_one",
                              !.outcome = Ok(Head(todo))]]
    /\ todo' = Tail(todo)
    /\ UNCHANGED <<host, disk, loaded, outdir, vfs, db, args, flags, pc, res,
                   diags, err_in_diag, recursion_limit, changes, new_diags,
                   changed_files, fix_result, cmd_result, exit_code, stderr,
                   writes, calls, failed, run, tree1, input, output>>

\* A variant of the merge where the result of a worker replaces what the
\* others have delivered.
WorkerLastWins(r) ==
    /\ pc = "par_bridge"
    /\ snapshots[r].state = "running"
    /\ LET f == snapshots[r].outcome.val
       IN res' = do_parse_one(input.text[f], f, ModuleName(f), <<>>)
    /\ snapshots' = [snapshots EXCEPT ![r].state = "idle"]
    /\ UNCHANGED <<host, disk, loaded, outdir, vfs, db, args, flags, pc,
                   diags, err_in_diag, recursion_limit, changes, todo,
                   new_diags, changed_files, fix_result, cmd_result, exit_code,
                   stderr, writes, calls, failed, run, tree1, input, output>>

\* The closure of map_with on the module the worker holds: do_parse_one
\* unless the file is an OTP file to ignore, of a dependency or of an
\* ignored app; flatten and collect add what it returns to the result.
WorkerDone(r) ==
    /\ pc = "par_bridge"
    /\ snapshots[r].state = "running"
    /\ LET f == snapshots[r].outcome.val
           a == input.app[f]
       IN res' = res \o
              (IF /\ ~a.otp_ignored
                  /\ a.app_type # "Dep"
                  /\ a.app_name \notin input.ignore_apps
               THEN do_parse_one(input.text[f], f, ModuleName(f), <<>>)
               ELSE <<>>)
    /\ snapshots' = [snapshots EXCEPT ![r].state = "idle"]
    /\ UNCHANGED <<host, disk, loaded, outdir, vfs, db, args, flags, pc,
                   diags, err_in_diag, recursion_limit, changes, todo,
                   new_diags, changed_files, fix_result, cmd_result, exit_code,
                   stderr, writes, calls, failed, run, tree1, input, output>>

\* collect returns once the iterator is used up and every worker is done;
\* the clones are dropped.
ParAllCollect ==
    /\ pc = "par_bridge"
    /\ todo = <<>>
    /\ \A r \in Readers : snapshots[r].state # "running"
    /\ snapshots' = [r \in Readers |-> [snapshots[r] EXCEPT !.state = "none"]]
    /\ output' = res
    /\ pc' = "collected"
    /\ UNCHANGED <<host, disk, loaded, outdir, vfs, db, args, flags, res,
                   diags, err_in_diag, recursion_limit, changes, todo,
                   new_diags, changed_files, fix_result, cmd_result, exit_code,
                   stderr, writes, calls, failed, run, tree1, input>>

NextParAll ==
    \/ ParAllStart
    \/ \E r \in Readers : WorkerTake(r)
    \/ \E r \in Readers : WorkerDone(r)
    \/ ParAllCollect

SpecParAll == InitCode /\ [][NextParAll]_vars

\* C30: whatever the interleaving of the workers, the result of do_parse_all
\* holds one entry (module name, file id, diagnostics, no change ranges) for
\* every own module that is not an OTP file to ignore, not of a dependency,
\* not of an ignored app and has diagnostics, and nothing else; while the
\* workers run, each works on a clone taken at the revision of the host.
C30_OneEntryPerEligibleModule ==
    /\ pc = "par_bridge" =>
           \A r \in Readers :
               snapshots[r].state = "running" => snapshots[r].rev = host.rev
    /\ pc = "collected" =>
           \A f \in Files :
               LET entries == {i \in 1..Len(output) : output[i].file_id = f}
                   ds == diagnostics(input.text[f])
                   wanted == /\ ~input.app[f].otp_ignored
                             /\ input.app[f].app_type # "Dep"
                             /\ input.app[f].app_name \notin input.ignore_apps
                             /\ ds # <<>>
               IN /\ Cardinality(entries) = IF wanted THEN 1 ELSE 0
                  /\ \A i \in entries :
                         output[i] = [name |-> ModuleName(f), file_id |-> f,
                                      ds |-> ds, changes |-> <<>>]

\* Both modules have an entry, and the worker of the second module
\* delivered first.
C30_Witness ==
    /\ pc = "collected"
    /\ Len(output) = 2
    /\ output[1].file_id > output[2].file_id

====
